---- MODULE Spec2Model ----
(***************************************************************************)
(* The on-chain ledger of FIDNS: TLDRegistry (domain records, prices,      *)
(* owner index), DomainTreasury (per-domain fee ledger, auto-renewal) and  *)
(* DomainFractionalization / DomainToken (share tokens, default transfer). *)
(*                                                                         *)
(* Every external function is an operator from a ledger state s (a record  *)
(* of all contract storage) and the call's arguments to a result           *)
(* [ok, err, st, fee, refund]: a revert is ok = FALSE with st the state    *)
(* the call started from, which is how the EVM discards a failed call.     *)
(* One action per externally callable function applies the result.         *)
(*                                                                         *)
(* Time is counted in hours since deployment: every amount the contracts   *)
(* add to or compare with block.timestamp (365 days, 1 days, 30 days) is   *)
(* a whole number of hours.  Strings are sequences of ASCII codes, so      *)
(* that case folding and concatenation are computed as the code does.      *)
(* The uint64 / uint8 casts of the registry never truncate within the      *)
(* bounds explored here (timestamps < 2^31, years <= 100).                 *)
(***************************************************************************)
EXTENDS Integers, Sequences, FiniteSets, TLC

\* ---------------------------------------------------------------- addresses
ZERO     == "0x0"
ALICE    == "alice"
BOB      == "bob"
ADMIN    == "admin"
REGISTRY == "TLDRegistry"
TREASURY == "DomainTreasury"
FRAC     == "DomainFractionalization"
USDC     == "USDC"
FEED     == "AggregatorV3"

Users     == {ALICE, BOB}
EOAs      == {ALICE, BOB, ADMIN}
Contracts == {REGISTRY, TREASURY, FRAC}

\* ---------------------------------------------------------------- bounds
MaxYearTicks == 1
MaxDayTicks == 1
MaxModelYears == 3

\* ---------------------------------------------------------------- constants
DAYS == 24
MAX_FEE_PERCENTAGE == 1000
defaultFeePercentage == 100
MAX_YEARS_PURCHASED == 100

\* Share amounts are counted in units of 10^27 base units (10^9 whole tokens).
TOTAL_SUPPLY == 10
OWNER_SHARE == 5
PUBLIC_SHARE == 5
MAX_TOKEN_HOLDERS == 1000

\* Oracle prices are counted in whole dollars (units of 10^8 of the feed's
\* 8-decimal answer); the staleness bound of 3600 s is one hour.
MIN_ETH_PRICE == 500
STALE_AFTER == 1

YearLen == 365 * DAYS

\* ---------------------------------------------------------------- strings
Dot == <<46>>

NameInputs == {<<97>>, <<65>>, <<98>>, <<45>>}
TldInputs  == {<<99>>, <<67>>}

_normalizeOk(domain) == Len(domain) > 0 /\ Len(domain) <= 253

_normalizeDomain(domain) ==
  [i \in 1..Len(domain) |->
     IF domain[i] >= 65 /\ domain[i] <= 90 THEN domain[i] + 32 ELSE domain[i]]

_isAlphanumeric(char) ==
  \/ (char >= 48 /\ char <= 57)
  \/ (char >= 65 /\ char <= 90)
  \/ (char >= 97 /\ char <= 122)

_validateDomainName(domain) ==
  /\ Len(domain) > 0
  /\ Len(domain) <= 63
  /\ _isAlphanumeric(domain[1])
  /\ _isAlphanumeric(domain[Len(domain)])
  /\ \A i \in 1..Len(domain) :
       /\ (_isAlphanumeric(domain[i]) \/ domain[i] = 45)
       /\ ~(i > 1 /\ domain[i] = 45 /\ domain[i - 1] = 45)

\* string(abi.encodePacked(a, ".", b))
Packed(a, b) == a \o Dot \o b

\* Every string that is ever used as a mapping key.
Keys == {Packed(n, t) : n \in NameInputs, t \in TldInputs}
         \cup {Packed(_normalizeDomain(n), _normalizeDomain(t)) : n \in NameInputs, t \in TldInputs}

\* The full domains that pass the registry's validation.
FullDomains == {Packed(_normalizeDomain(n), _normalizeDomain(t)) :
                  n \in {x \in NameInputs : _validateDomainName(_normalizeDomain(x))},
                  t \in TldInputs}

EmptyInfo == [owner |-> ZERO, registrationTimestamp |-> 0, expirationTimestamp |-> 0,
              yearsPurchased |-> 0, tld |-> <<>>]

\* ---------------------------------------------------------------- results
Ok(s)        == [ok |-> TRUE,  err |-> "ok", st |-> s,  fee |-> 0, refund |-> 0]
OkPaid(s, f, r) == [ok |-> TRUE,  err |-> "ok", st |-> s,  fee |-> f, refund |-> r]
Fail(s0, e)  == [ok |-> FALSE, err |-> e,    st |-> s0, fee |-> 0, refund |-> 0]

\* Move v (in units of 10^12 wei) between accounts; only the contracts'
\* balances are recorded.
Pay(s, from, to, v) ==
  [s EXCEPT !.eth = [c \in Contracts |->
     s.eth[c] + (IF c = to THEN v ELSE 0) - (IF c = from THEN v ELSE 0)]]

\* calculateFee charging nothing
calculateFeeNone(s, domain, transactionValue) == 0

\* ---------------------------------------------------------------- DomainTreasury
\* calculateFee(domain, transactionValue), a view
calculateFee(s, domain, transactionValue) ==
  LET feePercentage == IF s.domainFeePercentages[domain] = 0
                       THEN defaultFeePercentage
                       ELSE s.domainFeePercentages[domain]
  IN (transactionValue * feePercentage) \div 10000

\* modifier onlyTLDRegistry
onlyTLDRegistry(sender) == sender = REGISTRY

\* depositFee with the balance assigned instead of increased
depositFeeOverwrite(s0, s, sender, domain, value) ==
  IF ~onlyTLDRegistry(sender) THEN Fail(s0, "OnlyTLDRegistry")
  ELSE IF ~(value > 0) THEN Fail(s0, "NoFeeProvided")
  ELSE IF ~(Len(domain) > 0) THEN Fail(s0, "DomainEmpty")
  ELSE Ok([s EXCEPT !.treasuryBalances[domain] = value])

\* depositFee(domain) payable: s already holds the value sent along
depositFee(s0, s, sender, domain, value) ==
  IF ~onlyTLDRegistry(sender) THEN Fail(s0, "OnlyTLDRegistry")
  ELSE IF ~(value > 0) THEN Fail(s0, "NoFeeProvided")
  ELSE IF ~(Len(domain) > 0) THEN Fail(s0, "DomainEmpty")
  ELSE Ok([s EXCEPT !.treasuryBalances[domain] = @ + value])

\* ---------------------------------------------------------------- TLDRegistry
getDomainPrice(s, tld, numYears) ==
  IF numYears = 0 \/ numYears > 10 THEN [ok |-> FALSE, err |-> "InvalidYears", price |-> 0]
  ELSE IF s.tldPrices[tld] = 0 THEN [ok |-> FALSE, err |-> "TLDPriceNotSet", price |-> 0]
  ELSE [ok |-> TRUE, err |-> "ok", price |-> s.tldPrices[tld] * numYears]

\* isDomainAvailable with > for >=
isDomainAvailableStrict(s, domain) ==
  LET info == s.domainInfo[_normalizeDomain(domain)]
  IN IF info.owner = ZERO THEN TRUE
     ELSE s.now > info.expirationTimestamp

\* isDomainAvailable with the comparison turned round
isDomainAvailableInverted(s, domain) ==
  LET info == s.domainInfo[_normalizeDomain(domain)]
  IN IF info.owner = ZERO THEN TRUE
     ELSE s.now <= info.expirationTimestamp

isDomainAvailable(s, domain) ==
  LET info == s.domainInfo[_normalizeDomain(domain)]
  IN IF info.owner = ZERO THEN TRUE
     ELSE s.now >= info.expirationTimestamp

_validateFee(fee, payment) ==
  /\ fee <= payment
  /\ payment # 0
  /\ (fee * 10000) \div payment <= MAX_FEE_PERCENTAGE

\* treasury.staticcall(calculateFee(fullDomain, amount)): an address without
\* code answers success with empty return data; a contract without the
\* function answers failure.
staticcallCalculateFee(s, fullDomain, amount) ==
  IF s.treasury = TREASURY
  THEN [success |-> TRUE, hasData |-> TRUE, fee |-> calculateFee(s, fullDomain, amount)]
  ELSE IF s.treasury \in EOAs
  THEN [success |-> TRUE, hasData |-> FALSE, fee |-> 0]
  ELSE [success |-> FALSE, hasData |-> FALSE, fee |-> 0]

\* treasury.call{value: fee}(depositFee(fullDomain)) made by the registry
callDepositFee(s, fullDomain, fee) ==
  IF s.treasury = TREASURY
  THEN depositFee(s, Pay(s, REGISTRY, TREASURY, fee), REGISTRY, fullDomain, fee)
  ELSE IF s.treasury \in EOAs THEN Ok(Pay(s, REGISTRY, s.treasury, fee))
  ELSE Fail(s, "NoSuchFunction")

\* The fee leg shared by registerDomain and renewDomain (the payment is
\* already in the registry's balance): fee computed on msg.value, validated,
\* deposited when positive.
_collectFee(s, fullDomain, value, errCalc, errDeposit) ==
  IF s.treasury = ZERO THEN OkPaid(s, 0, 0)
  ELSE LET r == staticcallCalculateFee(s, fullDomain, value)
       IN IF ~r.success \/ ~r.hasData THEN Fail(s, errCalc)
          ELSE IF ~_validateFee(r.fee, value) THEN Fail(s, "FeeInvalid")
          ELSE IF r.fee > 0
               THEN LET d == callDepositFee(s, fullDomain, r.fee)
                    IN IF ~d.ok THEN Fail(s, errDeposit)
                       ELSE OkPaid(d.st, r.fee, 0)
               ELSE OkPaid(s, 0, 0)

\* The array after _removeDomainFromOwner: the first match is overwritten with
\* the last element and the array popped; no match leaves it as it is.
SwapAndPop(list, domain) ==
  LET idx == {i \in 1..Len(list) : list[i] = domain}
  IN IF idx = {} THEN list
     ELSE LET i == CHOOSE j \in idx : \A k \in idx : j <= k
              swapped == [list EXCEPT ![i] = list[Len(list)]]
          IN SubSeq(swapped, 1, Len(list) - 1)

\* _removeDomainFromOwner popping without the swap
_removeDomainFromOwnerNoSwap(s, owner, domain) ==
  [s EXCEPT !.ownerDomains[owner] =
     IF \E i \in 1..Len(@) : @[i] = domain THEN SubSeq(@, 1, Len(@) - 1) ELSE @]

_removeDomainFromOwner(s, owner, domain) ==
  [s EXCEPT !.ownerDomains[owner] = SwapAndPop(@, domain)]

\* ownerDomains[owner].push(domain)
_pushDomain(s, owner, domain) ==
  [s EXCEPT !.ownerDomains[owner] = Append(@, domain)]

\* The record and index writes shared by the three register functions.
_storeRegistration(s, sender, fullDomain, normalizedTld, numYears) ==
  LET oldInfo == s.domainInfo[fullDomain]
      s1 == IF oldInfo.owner # ZERO /\ oldInfo.owner # sender
            THEN _removeDomainFromOwner(s, oldInfo.owner, fullDomain) ELSE s
      s2 == IF oldInfo.owner # sender THEN _pushDomain(s1, sender, fullDomain) ELSE s1
  IN [s2 EXCEPT !.domainInfo[fullDomain] =
        [owner |-> sender,
         registrationTimestamp |-> s.now,
         expirationTimestamp |-> s.now + numYears * YearLen,
         yearsPurchased |-> numYears,
         tld |-> normalizedTld]]

\* The state in which registerDomain (line 302) and renewDomain (line 462)
\* send the refund to the caller: the payment is in, the fee is deposited
\* (lines 278-294, 440-455), the record and the owner index are not yet
\* written (lines 306-323, 466-475).
RefundCallState(s, sender, fullDomain, value) ==
  _collectFee(Pay(s, sender, REGISTRY, value), fullDomain, value,
              "FeeCalculationFailed", "FeeDepositFailed").st

\* The excess with the fee left out
ExcessOfPayment(value, fee, totalPrice) == value - totalPrice

\* uint256 excess = netPayment - totalPrice, with netPayment = msg.value - fee
Excess(value, fee, totalPrice) == (value - fee) - totalPrice

registerDomain(s, sender, domain, tld, numYears, value) ==
  IF ~(numYears > 0 /\ numYears <= 10) THEN Fail(s, "YearsRange")
  ELSE IF ~_normalizeOk(domain) \/ ~_normalizeOk(tld) THEN Fail(s, "DomainEmptyOrLong")
  ELSE
  LET normalizedDomain == _normalizeDomain(domain)
      normalizedTld == _normalizeDomain(tld)
      fullDomain == Packed(normalizedDomain, normalizedTld)
      p == getDomainPrice(s, normalizedTld, numYears)
      sIn == Pay(s, sender, REGISTRY, value)
  IN IF ~_validateDomainName(normalizedDomain) THEN Fail(s, "InvalidDomainFormat")
     ELSE IF ~_validateDomainName(normalizedTld) THEN Fail(s, "InvalidTLDFormat")
     ELSE IF ~isDomainAvailable(s, fullDomain) THEN Fail(s, "DomainNotAvailable")
     ELSE IF ~p.ok THEN Fail(s, p.err)
     ELSE IF value < p.price THEN Fail(s, "InsufficientPayment")
     ELSE LET f == _collectFee(sIn, fullDomain, value, "FeeCalculationFailed", "FeeDepositFailed")
              netPayment == value - f.fee
              excess == Excess(value, f.fee, p.price)
          IN IF ~f.ok THEN Fail(s, f.err)
             ELSE IF netPayment < p.price THEN Fail(s, "InsufficientPaymentAfterFee")
             ELSE OkPaid(_storeRegistration(Pay(f.st, REGISTRY, sender, excess),
                                            sender, fullDomain, normalizedTld, numYears),
                         f.fee, excess)

\* The extension counted from now in both branches
ExtendedFromNow(s, info, numYears) == s.now + numYears * YearLen

\* "Extend expiration" of the renew functions (e.g. lines 466-471)
ExtendedExpiration(s, info, numYears) ==
  IF s.now >= info.expirationTimestamp
  THEN s.now + numYears * YearLen
  ELSE info.expirationTimestamp + numYears * YearLen

\* _extend without the guard on the years counter
_extendUncapped(s0, s, fullDomain, numYears) ==
  LET info == s.domainInfo[fullDomain]
      newYearsPurchased == info.yearsPurchased + numYears
  IN Ok([s EXCEPT !.domainInfo[fullDomain].expirationTimestamp =
                       ExtendedExpiration(s, info, numYears),
                  !.domainInfo[fullDomain].yearsPurchased = newYearsPurchased])

\* Expiration and years-counter update shared by the renew functions,
\* with the 100-year guard that reverts the whole call.
_extend(s0, s, fullDomain, numYears) ==
  LET info == s.domainInfo[fullDomain]
      newYearsPurchased == info.yearsPurchased + numYears
  IN IF ~(newYearsPurchased <= MAX_YEARS_PURCHASED) THEN Fail(s0, "YearsExceedMaximum")
     ELSE Ok([s EXCEPT !.domainInfo[fullDomain].expirationTimestamp =
                          ExtendedExpiration(s, info, numYears),
                       !.domainInfo[fullDomain].yearsPurchased = newYearsPurchased])

\* renewDomain taking the path of a new registration
renewDomainAsRegistration(s, sender, domain, tld, numYears, value) ==
  registerDomain(s, sender, domain, tld, numYears, value)

renewDomain(s, sender, domain, tld, numYears, value) ==
  IF ~(numYears > 0 /\ numYears <= 10) THEN Fail(s, "YearsRange")
  ELSE IF ~_normalizeOk(domain) \/ ~_normalizeOk(tld) THEN Fail(s, "DomainEmptyOrLong")
  ELSE
  LET normalizedTld == _normalizeDomain(tld)
      fullDomain == Packed(_normalizeDomain(domain), normalizedTld)
      info == s.domainInfo[fullDomain]
      p == getDomainPrice(s, normalizedTld, numYears)
      sIn == Pay(s, sender, REGISTRY, value)
  IN IF info.owner # sender THEN Fail(s, "NotDomainOwner")
     ELSE IF s.now >= info.expirationTimestamp THEN Fail(s, "DomainHasExpired")
     ELSE IF ~p.ok THEN Fail(s, p.err)
     ELSE IF ~(value >= p.price) THEN Fail(s, "InsufficientPayment")
     ELSE LET f == _collectFee(sIn, fullDomain, value, "FeeCalculationFailed", "FeeDepositFailed")
              netPayment == value - f.fee
              excess == Excess(value, f.fee, p.price)
          IN IF ~f.ok THEN Fail(s, f.err)
             ELSE IF ~(netPayment >= p.price) THEN Fail(s, "InsufficientPaymentAfterFee")
             ELSE LET e == _extend(s, Pay(f.st, REGISTRY, sender, excess), fullDomain, numYears)
                  IN IF ~e.ok THEN e ELSE OkPaid(e.st, f.fee, excess)

\* transferDomain without the check of the expiration
transferDomainOfExpired(s, sender, domain, newOwner) ==
  IF ~_normalizeOk(domain) THEN Fail(s, "DomainEmptyOrLong")
  ELSE
  LET normalized == _normalizeDomain(domain)
      info == s.domainInfo[normalized]
      oldOwner == info.owner
      s1 == [s EXCEPT !.domainInfo[normalized].owner = newOwner]
  IN IF info.owner # sender THEN Fail(s, "NotDomainOwner")
     ELSE IF newOwner = ZERO THEN Fail(s, "InvalidNewOwner")
     ELSE IF newOwner = sender THEN Fail(s, "CannotTransferToSelf")
     ELSE Ok(_pushDomain(_removeDomainFromOwner(s1, oldOwner, normalized), newOwner, normalized))

transferDomain(s, sender, domain, newOwner) ==
  IF ~_normalizeOk(domain) THEN Fail(s, "DomainEmptyOrLong")
  ELSE
  LET normalized == _normalizeDomain(domain)
      info == s.domainInfo[normalized]
      oldOwner == info.owner
      s1 == [s EXCEPT !.domainInfo[normalized].owner = newOwner]
  IN IF info.owner # sender THEN Fail(s, "NotDomainOwner")
     ELSE IF newOwner = ZERO THEN Fail(s, "InvalidNewOwner")
     ELSE IF newOwner = sender THEN Fail(s, "CannotTransferToSelf")
     ELSE IF s.now >= info.expirationTimestamp THEN Fail(s, "DomainHasExpired")
     ELSE Ok(_pushDomain(_removeDomainFromOwner(s1, oldOwner, normalized), newOwner, normalized))

\* The caller check passing everyone while no address is configured
onlyFractionalizationCallerIfSet(s, sender) ==
  ~(s.fractionalization # ZERO /\ sender # s.fractionalization)

\* The caller check of transferDomainOwnership (lines 947-949)
onlyFractionalizationCaller(s, sender) ==
  ~(s.fractionalization = ZERO \/ sender # s.fractionalization)

transferDomainOwnership(s, sender, domain, newOwner) ==
  IF ~onlyFractionalizationCaller(s, sender) THEN Fail(s, "NotDomainOwner")
  ELSE IF ~_normalizeOk(domain) THEN Fail(s, "DomainEmptyOrLong")
  ELSE
  LET normalized == _normalizeDomain(domain)
      info == s.domainInfo[normalized]
      oldOwner == info.owner
      s1 == [s EXCEPT !.domainInfo[normalized].owner = newOwner]
  IN IF info.owner = ZERO THEN Fail(s, "DomainNotFound")
     ELSE IF newOwner = ZERO THEN Fail(s, "InvalidNewOwner")
     ELSE Ok(_pushDomain(_removeDomainFromOwner(s1, oldOwner, normalized), newOwner, normalized))

\* The caller check of renewDomainFromTreasury (lines 977-978)
onlyTreasuryCaller(s, sender) ==
  IF s.treasury = ZERO THEN "TreasuryNotSet"
  ELSE IF sender # s.treasury THEN "OnlyTreasuryCanRenew"
  ELSE "ok"

\* renewDomainFromTreasury is not payable: a call that carries value reverts
\* before the body runs.
renewDomainFromTreasury(s, sender, domain, tld, numYears, value) ==
  IF value # 0 THEN Fail(s, "NonPayable")
  ELSE IF onlyTreasuryCaller(s, sender) # "ok" THEN Fail(s, onlyTreasuryCaller(s, sender))
  ELSE IF ~_normalizeOk(domain) \/ ~_normalizeOk(tld) THEN Fail(s, "DomainEmptyOrLong")
  ELSE
  LET fullDomain == Packed(_normalizeDomain(domain), _normalizeDomain(tld))
      info == s.domainInfo[fullDomain]
  IN IF info.owner = ZERO THEN Fail(s, "DomainNotFound")
     ELSE _extend(s, s, fullDomain, numYears)

\* ---------------------------------------------------------------- DomainTreasury (calls)
setDomainFeePercentage(s, sender, domain, percentage) ==
  LET info == s.domainInfo[domain]
  IN IF info.owner = ZERO THEN Fail(s, "DomainNotFound")
     ELSE IF info.owner # sender THEN Fail(s, "NotDomainOwner")
     ELSE IF ~(s.now < info.expirationTimestamp) THEN Fail(s, "DomainExpired")
     ELSE IF ~(percentage <= 1000) THEN Fail(s, "FeeTooHigh")
     ELSE Ok([s EXCEPT !.domainFeePercentages[domain] = percentage])

\* The value autoRenewDomain sends along with renewDomainFromTreasury
\* (line 125: {value: renewalCost}).
RenewalCallValue(renewalCost) == renewalCost

\* The call the treasury makes to the registry inside the try (lines 125-129),
\* from the state s1 in which the cost is already deducted.
RenewalCall(s1, domain, tld, numYears, renewalCost) ==
  renewDomainFromTreasury(Pay(s1, TREASURY, REGISTRY, RenewalCallValue(renewalCost)),
                          TREASURY, domain, tld, numYears, RenewalCallValue(renewalCost))

\* A catch block that neither restores the balance nor reverts
catchAndReturn(s0, s1, fullDomain, renewalCost) == OkPaid(s1, renewalCost, 0)

\* The catch block (lines 131-135): the deduction is added back and the call
\* reverts, which returns the treasury to the state s0 it started from.
catchRenewalFailure(s0, s1, fullDomain, renewalCost) == Fail(s0, "RenewalFailed")

autoRenewDomain(s, sender, domain, tld, numYears) ==
  LET fullDomain == Packed(domain, tld)
      domainOwner == s.domainInfo[fullDomain].owner
      p == getDomainPrice(s, tld, numYears)
      renewalCost == p.price
      s1 == [s EXCEPT !.treasuryBalances[fullDomain] = @ - renewalCost]
      r == RenewalCall(s1, domain, tld, numYears, renewalCost)
  IN IF domainOwner = ZERO THEN Fail(s, "DomainNotFound")
     ELSE IF domainOwner # sender THEN Fail(s, "NotDomainOwner")
     ELSE IF ~(numYears > 0 /\ numYears <= 10) THEN Fail(s, "InvalidYears")
     ELSE IF ~p.ok THEN Fail(s, p.err)
     ELSE IF ~(renewalCost > 0) THEN Fail(s, "TLDPriceNotSet")
     ELSE IF ~(s.treasuryBalances[fullDomain] >= renewalCost)
          THEN Fail(s, "InsufficientTreasuryBalance")
     ELSE IF ~r.ok THEN catchRenewalFailure(s, s1, fullDomain, renewalCost)
     ELSE OkPaid(r.st, renewalCost, 0)

\* What the caller of withdrawExcess does when the ether arrives: take it,
\* refuse it, or call withdrawExcess again before taking it.
ReceiverKinds == {"accepts", "rejects", "reenters"}

\* A call of a nonReentrant function made while withdrawExcess is running
nonReentrantWhileEntered(s) == Fail(s, "ReentrancyGuardReentrantCall")

\* payable(msg.sender).call{value: amount}("") made in state s: seen is the
\* domain's balance the receiver reads during the call, reentered the result
\* of the call a re-entering receiver makes.
withdrawExcessCall(s, sender, domain, amount, receiver) ==
  [success   |-> s.eth[TREASURY] >= amount /\ receiver # "rejects",
   seen      |-> s.treasuryBalances[domain],
   reentered |-> IF receiver = "reenters" THEN nonReentrantWhileEntered(s) ELSE Ok(s)]

\* withdrawExcess paying out with the balance left as it was
withdrawExcessDebitNone(s, domain, amount) == s

\* treasuryBalances[domain] -= amount (line 152): the state in which the
\* transfer of line 155 is made
withdrawExcessDebit(s, domain, amount) ==
  [s EXCEPT !.treasuryBalances[domain] = @ - amount]

\* withdrawExcess going on when the transfer has failed
withdrawExcessUnchecked(s, sender, domain, amount, receiver) ==
  LET domainOwner == s.domainInfo[domain].owner
      s1 == withdrawExcessDebit(s, domain, amount)
      c == withdrawExcessCall(s1, sender, domain, amount, receiver)
  IN IF domainOwner = ZERO THEN Fail(s, "DomainNotFound")
     ELSE IF domainOwner # sender THEN Fail(s, "NotDomainOwner")
     ELSE IF ~(amount > 0) THEN Fail(s, "AmountZero")
     ELSE IF ~(s.treasuryBalances[domain] >= amount) THEN Fail(s, "InsufficientBalance")
     ELSE IF ~c.success THEN OkPaid(s1, 0, 0)
     ELSE OkPaid(Pay(s1, TREASURY, sender, amount), 0, amount)

withdrawExcess(s, sender, domain, amount, receiver) ==
  LET domainOwner == s.domainInfo[domain].owner
      s1 == withdrawExcessDebit(s, domain, amount)
      c == withdrawExcessCall(s1, sender, domain, amount, receiver)
  IN IF domainOwner = ZERO THEN Fail(s, "DomainNotFound")
     ELSE IF domainOwner # sender THEN Fail(s, "NotDomainOwner")
     ELSE IF ~(amount > 0) THEN Fail(s, "AmountZero")
     ELSE IF ~(s.treasuryBalances[domain] >= amount) THEN Fail(s, "InsufficientBalance")
     ELSE IF ~c.success THEN Fail(s, "TransferFailed")
     ELSE OkPaid(Pay(s1, TREASURY, sender, amount), 0, amount)

canAutoRenew(s, domain, tld, numYears) ==
  LET p == getDomainPrice(s, tld, numYears)
  IN p.ok /\ s.treasuryBalances[Packed(domain, tld)] >= p.price

\* ---------------------------------------------------------------- DomainToken
\* The address of the DomainToken deployed for a domain.
TokenAddress(domain) ==
  IF domain = <<97, 46, 99>> THEN "DomainToken(a.c)"
  ELSE IF domain = <<98, 46, 99>> THEN "DomainToken(b.c)"
  ELSE "DomainToken(other)"

Holders == EOAs

EmptyToken == [deployed |-> FALSE, owner |-> ZERO, lockedSupply |-> 0, unlockTimestamp |-> 0,
               ownerTokensUnlocked |-> FALSE, totalSupply |-> 0,
               balances |-> [h \in Holders |-> 0]]

EmptyFracInfo == [tokenContract |-> ZERO, domainOwner |-> ZERO, unlockTimestamp |-> 0,
                  isEnabled |-> FALSE, publicTokenPrice |-> 0]

balanceOf(s, domain, account) ==
  IF account \in Holders THEN s.tokens[domain].balances[account] ELSE 0

RemoveHolder(list, who) ==
  LET idx == {i \in 1..Len(list) : list[i] = who}
  IN IF idx = {} THEN list
     ELSE LET i == CHOOSE j \in idx : \A k \in idx : j <= k
              swapped == [list EXCEPT ![i] = list[Len(list)]]
          IN SubSeq(swapped, 1, Len(list) - 1)

\* DomainFractionalization.onTokenTransfer(domain, from, to, amount)
onTokenTransfer(s0, s, sender, domain, from, to, amount) ==
  LET expectedToken == s.domainTokens[domain]
      domainOwner == s.fractionalizationInfo[domain].domainOwner
      s1 == IF from # ZERO
            THEN LET d == [s EXCEPT !.holderBalances[domain][from] = @ - amount]
                 IN IF d.holderBalances[domain][from] = 0 /\ from # domainOwner
                    THEN [d EXCEPT !.tokenHolders[domain] = RemoveHolder(@, from)]
                    ELSE d
            ELSE s
      s2 == IF to # ZERO
            THEN LET a == IF s1.holderBalances[domain][to] = 0 /\ to # domainOwner
                          THEN [s1 EXCEPT !.tokenHolders[domain] = Append(@, to)]
                          ELSE s1
                 IN [a EXCEPT !.holderBalances[domain][to] = @ + amount]
            ELSE s1
  IN IF expectedToken = ZERO THEN Fail(s0, "DomainNotFractionalized")
     ELSE IF sender # expectedToken THEN Fail(s0, "InvalidTokenContract")
     ELSE IF ~s.fractionalizationInfo[domain].isEnabled THEN Fail(s0, "FractionalizationNotEnabled")
     ELSE IF from # ZERO /\ ~(s.holderBalances[domain][from] >= amount)
          THEN Fail(s0, "InsufficientBalance")
     ELSE Ok(s2)

\* DomainToken._update(from, to, value): the lock check, the holder-tracking
\* hook, then ERC20._update.
_update(s0, s, domain, from, to, value) ==
  LET tk == s.tokens[domain]
      lockActive == from = tk.owner /\ ~tk.ownerTokensUnlocked /\ s.now < tk.unlockTimestamp
      hook == onTokenTransfer(s0, s, TokenAddress(domain), domain, from, to, value)
      h == hook.st
      afterFrom == IF from = ZERO
                   THEN [h EXCEPT !.tokens[domain].totalSupply = @ + value]
                   ELSE [h EXCEPT !.tokens[domain].balances[from] = @ - value]
      afterTo == IF to = ZERO
                 THEN [afterFrom EXCEPT !.tokens[domain].totalSupply = @ - value]
                 ELSE [afterFrom EXCEPT !.tokens[domain].balances[to] = @ + value]
  IN IF lockActive /\ ~(balanceOf(s, domain, from) >= value
                        /\ balanceOf(s, domain, from) - value >= tk.lockedSupply)
     THEN Fail(s0, "CannotTransferLockedTokens")
     ELSE IF ~hook.ok THEN hook
     ELSE IF from # ZERO /\ ~(balanceOf(s, domain, from) >= value)
          THEN Fail(s0, "ERC20InsufficientBalance")
     ELSE Ok(afterTo)

\* modifier onlyFractionalization of DomainToken
onlyFractionalization(sender) == sender = FRAC

mintLocked(s0, s, sender, domain, to, amount, unlockTimestamp) ==
  IF ~onlyFractionalization(sender) THEN Fail(s0, "OnlyFractionalizationContract")
  ELSE LET m == _update(s0, s, domain, ZERO, to, amount)
       IN IF ~m.ok THEN m
          ELSE Ok([m.st EXCEPT !.tokens[domain].lockedSupply = amount,
                               !.tokens[domain].unlockTimestamp = unlockTimestamp])

burn(s0, s, sender, domain, from, amount) ==
  IF ~onlyFractionalization(sender) THEN Fail(s0, "OnlyFractionalizationContract")
  ELSE _update(s0, s, domain, from, ZERO, amount)

\* ---------------------------------------------------------------- DomainFractionalization
setGracePeriod(s, sender, _gracePeriod) ==
  IF sender # ADMIN THEN Fail(s, "OwnableUnauthorizedAccount")
  ELSE IF ~(_gracePeriod <= 30 * DAYS) THEN Fail(s, "GracePeriodTooLong")
  ELSE Ok([s EXCEPT !.gracePeriod = _gracePeriod])

\* enableFractionalization without the check of the caller
enableFractionalizationByAnyone(s, sender, domain, publicTokenPrice) ==
  LET info == s.domainInfo[domain]
      expirationTimestamp == info.expirationTimestamp
      s1 == [s EXCEPT !.tokens[domain] = [EmptyToken EXCEPT !.deployed = TRUE, !.owner = sender]]
      m == mintLocked(s, s1, FRAC, domain, sender, OWNER_SHARE, expirationTimestamp)
  IN IF s.fractionalizationInfo[domain].isEnabled THEN Fail(s, "AlreadyFractionalized")
     ELSE IF ~(publicTokenPrice > 0) THEN Fail(s, "InvalidTokenPrice")
     ELSE IF ~(expirationTimestamp > s.now) THEN Fail(s, "DomainExpired")
     ELSE IF ~m.ok THEN Fail(s, m.err)
     ELSE Ok([m.st EXCEPT
                !.fractionalizationInfo[domain] =
                   [tokenContract |-> TokenAddress(domain), domainOwner |-> sender,
                    unlockTimestamp |-> expirationTimestamp, isEnabled |-> TRUE,
                    publicTokenPrice |-> publicTokenPrice],
                !.domainTokens[domain] = TokenAddress(domain)])

enableFractionalization(s, sender, domain, publicTokenPrice) ==
  LET info == s.domainInfo[domain]
      expirationTimestamp == info.expirationTimestamp
      \* new DomainToken(domain, msg.sender)
      s1 == [s EXCEPT !.tokens[domain] = [EmptyToken EXCEPT !.deployed = TRUE, !.owner = sender]]
      m == mintLocked(s, s1, FRAC, domain, sender, OWNER_SHARE, expirationTimestamp)
  IN IF info.owner # sender THEN Fail(s, "NotDomainOwner")
     ELSE IF s.fractionalizationInfo[domain].isEnabled THEN Fail(s, "AlreadyFractionalized")
     ELSE IF ~(publicTokenPrice > 0) THEN Fail(s, "InvalidTokenPrice")
     ELSE IF ~(expirationTimestamp > s.now) THEN Fail(s, "DomainExpired")
     ELSE IF ~m.ok THEN Fail(s, m.err)
     ELSE Ok([m.st EXCEPT
                !.fractionalizationInfo[domain] =
                   [tokenContract |-> TokenAddress(domain), domainOwner |-> sender,
                    unlockTimestamp |-> expirationTimestamp, isEnabled |-> TRUE,
                    publicTokenPrice |-> publicTokenPrice],
                !.domainTokens[domain] = TokenAddress(domain)])

\* The scan of getMajorityOwner over the first maxIterations tracked holders
\* (enough gas is assumed for every iteration).
RECURSIVE ScanHolders(_, _, _, _, _, _)
ScanHolders(s, domain, holders, i, maxIterations, majorityThreshold) ==
  IF i > maxIterations THEN ZERO
  ELSE IF holders[i] = s.fractionalizationInfo[domain].domainOwner
       THEN ScanHolders(s, domain, holders, i + 1, maxIterations, majorityThreshold)
  ELSE IF balanceOf(s, domain, holders[i]) >= majorityThreshold THEN holders[i]
  ELSE ScanHolders(s, domain, holders, i + 1, maxIterations, majorityThreshold)

getMajorityOwner(s, domain) ==
  LET info == s.fractionalizationInfo[domain]
      totalSupply == s.tokens[domain].totalSupply
      majorityThreshold == totalSupply \div 2 + 1
      holders == s.tokenHolders[domain]
      maxIterations == IF Len(holders) > 100 THEN 100 ELSE Len(holders)
  IN IF ~info.isEnabled THEN ZERO
     ELSE IF totalSupply = 0 THEN ZERO
     ELSE IF balanceOf(s, domain, info.domainOwner) >= majorityThreshold THEN info.domainOwner
     ELSE ScanHolders(s, domain, holders, 1, maxIterations, majorityThreshold)

\* The grace-period check of burnAndTransfer (line 189)
GraceElapsed(s, expirationTimestamp) ==
  s.now >= expirationTimestamp + s.gracePeriod

burnAndTransfer(s, sender, domain) ==
  LET info == s.fractionalizationInfo[domain]
      expirationTimestamp == s.domainInfo[domain].expirationTimestamp
      majorityOwner == getMajorityOwner(s, domain)
      ownerBalance == balanceOf(s, domain, info.domainOwner)
      b == IF ownerBalance > 0
           THEN LET r == burn(s, s, FRAC, domain, info.domainOwner, ownerBalance)
                IN IF ~r.ok THEN r
                   ELSE Ok([r.st EXCEPT !.holderBalances[domain][info.domainOwner] = 0])
           ELSE Ok(s)
      x == transferDomainOwnership(b.st, FRAC, domain, majorityOwner)
  IN IF ~info.isEnabled THEN Fail(s, "NotFractionalized")
     ELSE IF ~(s.now >= expirationTimestamp) THEN Fail(s, "DomainNotExpired")
     ELSE IF ~GraceElapsed(s, expirationTimestamp) THEN Fail(s, "GracePeriodActive")
     ELSE IF majorityOwner = ZERO THEN Fail(s, "NoMajorityOwner")
     ELSE IF majorityOwner = info.domainOwner THEN Fail(s, "OwnerStillMajority")
     ELSE IF ~b.ok THEN Fail(s, b.err)
     ELSE IF ~x.ok THEN Fail(s, x.err)
     ELSE Ok([x.st EXCEPT !.fractionalizationInfo[domain].domainOwner = majorityOwner])

\* DomainToken.mintPublic(to, amount)
mintPublic(s0, s, sender, domain, to, amount) ==
  IF ~onlyFractionalization(sender) THEN Fail(s0, "OnlyFractionalizationContract")
  ELSE _update(s0, s, domain, ZERO, to, amount)

\* DomainToken.publicSupply(): total - locked while the owner's shares are
\* locked, total - balanceOf(owner) once they are unlocked.
publicSupply(s, domain) ==
  LET tk == s.tokens[domain]
  IN IF tk.ownerTokensUnlocked THEN tk.totalSupply - balanceOf(s, domain, tk.owner)
     ELSE tk.totalSupply - tk.lockedSupply

\* (publicTokenPrice * numTokens + 10^18 - 1) / 10^18.  numTokens is counted
\* in units of 10^27 and the payments to this contract in units of 10^9 wei:
\* the quotient is publicTokenPrice * numTokens and leaves no remainder.
PurchasePrice(publicTokenPrice, numTokens) == publicTokenPrice * numTokens

purchasePublicTokens(s, sender, domain, numTokens, value) ==
  LET info == s.fractionalizationInfo[domain]
      availableSupply == publicSupply(s, domain)
      totalPrice == PurchasePrice(info.publicTokenPrice, numTokens)
      paid == Pay(s, sender, FRAC, value)
      m == mintPublic(s, paid, FRAC, domain, sender, numTokens)
      untracked == m.st.holderBalances[domain][sender] = 0 /\ sender # info.domainOwner
      t == IF untracked THEN [m.st EXCEPT !.tokenHolders[domain] = Append(@, sender)] ELSE m.st
      h == [t EXCEPT !.holderBalances[domain][sender] = @ + numTokens]
      excess == value - totalPrice
  IN IF ~info.isEnabled THEN Fail(s, "NotFractionalized")
     ELSE IF ~(numTokens > 0) THEN Fail(s, "InvalidAmount")
     ELSE IF availableSupply < 0 THEN Fail(s, "Panic")
     ELSE IF ~(numTokens <= availableSupply) THEN Fail(s, "InsufficientPublicSupply")
     ELSE IF ~(value >= totalPrice) THEN Fail(s, "InsufficientPayment")
     ELSE IF ~m.ok THEN Fail(s, m.err)
     ELSE IF untracked /\ ~(Len(m.st.tokenHolders[domain]) < MAX_TOKEN_HOLDERS)
          THEN Fail(s, "TooManyTokenHolders")
     ELSE OkPaid(Pay(h, FRAC, sender, excess), 0, excess)

\* DomainToken.unlockOwnerTokens(_owner)
tokenUnlockOwnerTokens(s0, s, sender, domain, _owner) ==
  LET tk == s.tokens[domain]
  IN IF ~onlyFractionalization(sender) THEN Fail(s0, "OnlyFractionalizationContract")
     ELSE IF _owner # tk.owner THEN Fail(s0, "NotDomainOwner")
     ELSE IF ~(s.now >= tk.unlockTimestamp \/ tk.ownerTokensUnlocked)
          THEN Fail(s0, "TokensStillLocked")
     ELSE Ok([s EXCEPT !.tokens[domain].ownerTokensUnlocked = TRUE,
                       !.tokens[domain].lockedSupply = 0])

\* DomainFractionalization.unlockOwnerTokens(domain)
unlockOwnerTokens(s, sender, domain) ==
  LET info == s.fractionalizationInfo[domain]
      newExpirationTimestamp == s.domainInfo[domain].expirationTimestamp
      u == tokenUnlockOwnerTokens(s, s, FRAC, domain, info.domainOwner)
  IN IF ~info.isEnabled THEN Fail(s, "NotFractionalized")
     ELSE IF ~(newExpirationTimestamp > info.unlockTimestamp) THEN Fail(s, "DomainNotRenewed")
     ELSE IF ~u.ok THEN Fail(s, u.err)
     ELSE Ok([u.st EXCEPT !.fractionalizationInfo[domain].unlockTimestamp =
                             newExpirationTimestamp])

\* _tryGetOraclePrice taking every positive answer, stale or below the floor
_tryGetOraclePriceUnchecked(s, feed) ==
  IF feed.reverts THEN [reverted |-> TRUE, price |-> 0, timestamp |-> 0, success |-> FALSE]
  ELSE IF feed.priceInt > 0
  THEN [reverted |-> FALSE, price |-> feed.priceInt, timestamp |-> feed.updatedAt,
        success |-> TRUE]
  ELSE [reverted |-> FALSE, price |-> 0, timestamp |-> 0, success |-> FALSE]

\* ---------------------------------------------------------------- TLDRegistry: price oracle
\* _tryGetOraclePrice: feed is the answer of latestRoundData,
\* [reverts, priceInt, updatedAt]; a revert here is caught by the caller.
_tryGetOraclePrice(s, feed) ==
  IF feed.reverts \/ (feed.priceInt > 0 /\ feed.updatedAt > s.now)
  THEN [reverted |-> TRUE, price |-> 0, timestamp |-> 0, success |-> FALSE]
  ELSE IF feed.priceInt > 0 /\ feed.updatedAt > 0 /\ s.now - feed.updatedAt <= STALE_AFTER
  THEN IF feed.priceInt >= MIN_ETH_PRICE
       THEN [reverted |-> FALSE, price |-> feed.priceInt, timestamp |-> feed.updatedAt,
             success |-> TRUE]
       ELSE [reverted |-> TRUE, price |-> 0, timestamp |-> 0, success |-> FALSE]
  ELSE [reverted |-> FALSE, price |-> 0, timestamp |-> 0, success |-> FALSE]

\* getLatestETHPrice preferring the fallback price to the feed
getLatestETHPriceFallbackFirst(s, feed) ==
  LET o == _tryGetOraclePrice(s, feed)
  IN IF s.fallbackETHPrice > 0
     THEN [ok |-> TRUE, price |-> s.fallbackETHPrice, timestamp |-> s.fallbackPriceTimestamp]
     ELSE IF s.ethUsdPriceFeed # ZERO /\ ~o.reverted /\ o.success
     THEN [ok |-> TRUE, price |-> o.price, timestamp |-> o.timestamp]
     ELSE [ok |-> FALSE, price |-> 0, timestamp |-> 0]

getLatestETHPrice(s, feed) ==
  LET o == _tryGetOraclePrice(s, feed)
  IN IF s.ethUsdPriceFeed # ZERO /\ ~o.reverted /\ o.success
     THEN [ok |-> TRUE, price |-> o.price, timestamp |-> o.timestamp]
     ELSE IF s.fallbackETHPrice > 0
     THEN [ok |-> TRUE, price |-> s.fallbackETHPrice, timestamp |-> s.fallbackPriceTimestamp]
     ELSE [ok |-> FALSE, price |-> 0, timestamp |-> 0]

\* (ethAmount * ethPriceInUSD) / 1e20.  Ether is counted in units of 10^12 wei
\* and the price in whole dollars (10^8 of the feed's units), so the dividend
\* is ethAmount * 10^12 * price * 10^8 and the quotient ethAmount * price,
\* in USDC's units of 10^-6 dollars.
convertETHToUSDC(s, feed, ethAmount) ==
  LET q == getLatestETHPrice(s, feed)
  IN [ok |-> q.ok, amount |-> ethAmount * q.price]

\* The payment leg shared by registerDomainWithUSDC and renewDomainWithUSDC:
\* fee on the converted price, transferFrom of fee and net price (pays says
\* whether the token's transferFrom succeeds), depositFee without value.
_collectUSDC(s, fullDomain, totalPrice, usdcAmount, feed, pays) ==
  LET c == convertETHToUSDC(s, feed, totalPrice)
      usdcPrice == c.amount
      r == staticcallCalculateFee(s, fullDomain, usdcPrice)
      fee == IF s.treasury # ZERO THEN r.fee ELSE 0
      d == IF s.treasury = TREASURY
           THEN depositFee(s, s, REGISTRY, fullDomain, 0)
           ELSE Ok(s)
  IN IF ~c.ok THEN Fail(s, "PriceFeedNotSet")
     ELSE IF s.treasury # ZERO /\ (~r.success \/ ~r.hasData) THEN Fail(s, "FeeCalculationFailed")
     ELSE IF s.treasury # ZERO /\ ~_validateFee(fee, usdcPrice) THEN Fail(s, "FeeInvalid")
     ELSE IF ~(usdcAmount >= usdcPrice) THEN Fail(s, "InsufficientPayment")
     ELSE IF fee > 0 /\ ~pays THEN Fail(s, "USDCTransferFailed")
     ELSE IF fee > 0 /\ ~d.ok THEN Fail(s, "FeeDepositFailed")
     ELSE IF ~pays THEN Fail(s, "USDCTransferFailed")
     ELSE OkPaid(IF fee > 0 THEN d.st ELSE s, fee, 0)

registerDomainWithUSDC(s, sender, domain, tld, numYears, usdcAmount, feed, pays) ==
  IF s.usdcToken = ZERO THEN Fail(s, "InvalidUSDCAddress")
  ELSE IF numYears = 0 \/ numYears > 10 THEN Fail(s, "InvalidYears")
  ELSE IF ~_normalizeOk(domain) \/ ~_normalizeOk(tld) THEN Fail(s, "DomainEmptyOrLong")
  ELSE
  LET normalizedDomain == _normalizeDomain(domain)
      normalizedTld == _normalizeDomain(tld)
      fullDomain == Packed(normalizedDomain, normalizedTld)
      p == getDomainPrice(s, normalizedTld, numYears)
      f == _collectUSDC(s, fullDomain, p.price, usdcAmount, feed, pays)
  IN IF ~_validateDomainName(normalizedDomain) THEN Fail(s, "InvalidDomainFormat")
     ELSE IF ~_validateDomainName(normalizedTld) THEN Fail(s, "InvalidTLDFormat")
     ELSE IF ~isDomainAvailable(s, fullDomain) THEN Fail(s, "DomainNotAvailable")
     ELSE IF ~p.ok THEN Fail(s, p.err)
     ELSE IF ~f.ok THEN Fail(s, f.err)
     ELSE OkPaid(_storeRegistration(f.st, sender, fullDomain, normalizedTld, numYears), f.fee, 0)

renewDomainWithUSDC(s, sender, domain, tld, numYears, usdcAmount, feed, pays) ==
  IF s.usdcToken = ZERO THEN Fail(s, "InvalidUSDCAddress")
  ELSE IF numYears = 0 \/ numYears > 10 THEN Fail(s, "InvalidYears")
  ELSE IF ~_normalizeOk(domain) \/ ~_normalizeOk(tld) THEN Fail(s, "DomainEmptyOrLong")
  ELSE
  LET normalizedTld == _normalizeDomain(tld)
      fullDomain == Packed(_normalizeDomain(domain), normalizedTld)
      info == s.domainInfo[fullDomain]
      p == getDomainPrice(s, normalizedTld, numYears)
      f == _collectUSDC(s, fullDomain, p.price, usdcAmount, feed, pays)
      e == _extend(s, f.st, fullDomain, numYears)
  IN IF info.owner # sender THEN Fail(s, "NotDomainOwner")
     ELSE IF s.now >= info.expirationTimestamp THEN Fail(s, "DomainHasExpired")
     ELSE IF ~p.ok THEN Fail(s, p.err)
     ELSE IF ~f.ok THEN Fail(s, f.err)
     ELSE IF ~e.ok THEN e
     ELSE OkPaid(e.st, f.fee, 0)

\* ---------------------------------------------------------------- TLDRegistry: batches
\* A batch is a sequence of items [domain, tld, numYears].
FullOf(item) == Packed(_normalizeDomain(item.domain), _normalizeDomain(item.tld))

\* The first loop of batchRegisterDomains validating the first item only
BatchRegisterCostFirstOnly(s, items, i) ==
  IF i > Len(items) \/ i > 1 THEN [ok |-> TRUE, err |-> "ok", cost |-> 0]
  ELSE
  LET it == items[i]
      p == getDomainPrice(s, _normalizeDomain(it.tld), it.numYears)
  IN IF ~_normalizeOk(it.domain) \/ ~_normalizeOk(it.tld)
     THEN [ok |-> FALSE, err |-> "DomainEmptyOrLong", cost |-> 0]
     ELSE IF ~_validateDomainName(_normalizeDomain(it.domain))
     THEN [ok |-> FALSE, err |-> "InvalidDomainFormat", cost |-> 0]
     ELSE IF ~_validateDomainName(_normalizeDomain(it.tld))
     THEN [ok |-> FALSE, err |-> "InvalidTLDFormat", cost |-> 0]
     ELSE IF ~isDomainAvailable(s, FullOf(it))
     THEN [ok |-> FALSE, err |-> "DomainNotAvailable", cost |-> 0]
     ELSE IF ~p.ok THEN [ok |-> FALSE, err |-> p.err, cost |-> 0]
     ELSE [ok |-> TRUE, err |-> "ok", cost |-> p.price]

\* First loop of batchRegisterDomains: validation and total cost
RECURSIVE BatchRegisterCost(_, _, _)
BatchRegisterCost(s, items, i) ==
  IF i > Len(items) THEN [ok |-> TRUE, err |-> "ok", cost |-> 0]
  ELSE
  LET it == items[i]
      p == getDomainPrice(s, _normalizeDomain(it.tld), it.numYears)
      rest == BatchRegisterCost(s, items, i + 1)
  IN IF ~_normalizeOk(it.domain) \/ ~_normalizeOk(it.tld)
     THEN [ok |-> FALSE, err |-> "DomainEmptyOrLong", cost |-> 0]
     ELSE IF ~_validateDomainName(_normalizeDomain(it.domain))
     THEN [ok |-> FALSE, err |-> "InvalidDomainFormat", cost |-> 0]
     ELSE IF ~_validateDomainName(_normalizeDomain(it.tld))
     THEN [ok |-> FALSE, err |-> "InvalidTLDFormat", cost |-> 0]
     ELSE IF ~isDomainAvailable(s, FullOf(it))
     THEN [ok |-> FALSE, err |-> "DomainNotAvailable", cost |-> 0]
     ELSE IF ~p.ok THEN [ok |-> FALSE, err |-> p.err, cost |-> 0]
     ELSE IF ~rest.ok THEN rest
     ELSE [ok |-> TRUE, err |-> "ok", cost |-> p.price + rest.cost]

\* First loop of batchRenewDomains
RECURSIVE BatchRenewCost(_, _, _, _)
BatchRenewCost(s, sender, items, i) ==
  IF i > Len(items) THEN [ok |-> TRUE, err |-> "ok", cost |-> 0]
  ELSE
  LET it == items[i]
      info == s.domainInfo[FullOf(it)]
      p == getDomainPrice(s, _normalizeDomain(it.tld), it.numYears)
      rest == BatchRenewCost(s, sender, items, i + 1)
  IN IF ~_normalizeOk(it.domain) \/ ~_normalizeOk(it.tld)
     THEN [ok |-> FALSE, err |-> "DomainEmptyOrLong", cost |-> 0]
     ELSE IF info.owner # sender THEN [ok |-> FALSE, err |-> "NotDomainOwner", cost |-> 0]
     ELSE IF s.now >= info.expirationTimestamp
     THEN [ok |-> FALSE, err |-> "DomainHasExpired", cost |-> 0]
     ELSE IF ~p.ok THEN [ok |-> FALSE, err |-> p.err, cost |-> 0]
     ELSE IF ~rest.ok THEN rest
     ELSE [ok |-> TRUE, err |-> "ok", cost |-> p.price + rest.cost]

\* The fee of one batch item: calculateFee on the item's price, 0 when the
\* staticcall fails or returns nothing.
BatchItemFee(s, it) ==
  LET price == getDomainPrice(s, _normalizeDomain(it.tld), it.numYears).price
      r == staticcallCalculateFee(s, FullOf(it), price)
  IN IF s.treasury # ZERO /\ r.success /\ r.hasData THEN r.fee ELSE 0

\* Second loop of both batch functions
RECURSIVE BatchFees(_, _, _)
BatchFees(s, items, i) ==
  IF i > Len(items) THEN 0
  ELSE BatchItemFee(s, items[i]) + BatchFees(s, items, i + 1)

\* Third loop of batchRegisterDomains: deposit the item's fee, store the item
RECURSIVE BatchRegisterApply(_, _, _, _, _)
BatchRegisterApply(s0, s, sender, items, i) ==
  IF i > Len(items) THEN Ok(s)
  ELSE
  LET it == items[i]
      fee == BatchItemFee(s, it)
      d == IF fee > 0 THEN callDepositFee(s, FullOf(it), fee) ELSE Ok(s)
  IN IF ~d.ok THEN Fail(s0, "FeeDepositFailed")
     ELSE BatchRegisterApply(s0,
            _storeRegistration(d.st, sender, FullOf(it), _normalizeDomain(it.tld), it.numYears),
            sender, items, i + 1)

\* Third loop of batchRenewDomains
RECURSIVE BatchRenewApply(_, _, _, _)
BatchRenewApply(s0, s, items, i) ==
  IF i > Len(items) THEN Ok(s)
  ELSE
  LET it == items[i]
      fee == BatchItemFee(s, it)
      d == IF fee > 0 THEN callDepositFee(s, FullOf(it), fee) ELSE Ok(s)
      e == _extend(s0, d.st, FullOf(it), it.numYears)
  IN IF ~d.ok THEN Fail(s0, "FeeDepositFailed")
     ELSE IF ~e.ok THEN e
     ELSE BatchRenewApply(s0, e.st, items, i + 1)

\* The size check without its lower limit
BatchSizeOkNoLowerLimit(n) == n <= 10

\* The size check of both batch functions (lines 579 and 684)
BatchSizeOk(n) == n > 0 /\ n <= 10

batchRegisterDomains(s, sender, items, value) ==
  LET c == BatchRegisterCost(s, items, 1)
      totalFees == BatchFees(s, items, 1)
      a == BatchRegisterApply(s, Pay(s, sender, REGISTRY, value), sender, items, 1)
      excess == value - c.cost - totalFees
  IN IF ~BatchSizeOk(Len(items)) THEN Fail(s, "InvalidBatchSize")
     ELSE IF ~c.ok THEN Fail(s, c.err)
     ELSE IF ~(value >= c.cost + totalFees) THEN Fail(s, "InsufficientPayment")
     ELSE IF ~a.ok THEN a
     ELSE OkPaid(Pay(a.st, REGISTRY, sender, excess), totalFees, excess)

batchRenewDomains(s, sender, items, value) ==
  LET c == BatchRenewCost(s, sender, items, 1)
      totalFees == BatchFees(s, items, 1)
      a == BatchRenewApply(s, Pay(s, sender, REGISTRY, value), items, 1)
      excess == value - c.cost - totalFees
  IN IF ~BatchSizeOk(Len(items)) THEN Fail(s, "InvalidBatchSize")
     ELSE IF ~c.ok THEN Fail(s, c.err)
     ELSE IF ~(value >= c.cost + totalFees) THEN Fail(s, "InsufficientPayment")
     ELSE IF ~a.ok THEN a
     ELSE OkPaid(Pay(a.st, REGISTRY, sender, excess), totalFees, excess)

\* The three argument arrays as one sequence of items
ItemsOf(domains, tlds, numYearsArray) ==
  [i \in 1..Len(domains) |->
     [domain |-> domains[i], tld |-> tlds[i], numYears |-> numYearsArray[i]]]

\* The entry of both batch functions: the arrays must be of one length
\* (lines 575-578 and 680-683) before anything else is looked at.
batchRegisterDomainsArrays(s, sender, domains, tlds, numYearsArray, value) ==
  IF ~(Len(domains) = Len(tlds) /\ Len(domains) = Len(numYearsArray))
  THEN Fail(s, "ArrayLengthMismatch")
  ELSE batchRegisterDomains(s, sender, ItemsOf(domains, tlds, numYearsArray), value)

batchRenewDomainsArrays(s, sender, domains, tlds, numYearsArray, value) ==
  IF ~(Len(domains) = Len(tlds) /\ Len(domains) = Len(numYearsArray))
  THEN Fail(s, "ArrayLengthMismatch")
  ELSE batchRenewDomains(s, sender, ItemsOf(domains, tlds, numYearsArray), value)

\* ---------------------------------------------------------------- TLDRegistry: administration
onlyOwner(sender) == sender = ADMIN

setTLDPrice(s, sender, tld, price) ==
  IF ~onlyOwner(sender) THEN Fail(s, "OwnableUnauthorizedAccount")
  ELSE Ok([s EXCEPT !.tldPrices[tld] = price])

setTreasuryAddress(s, sender, _treasury) ==
  IF ~onlyOwner(sender) THEN Fail(s, "OwnableUnauthorizedAccount")
  ELSE IF _treasury = ZERO THEN Fail(s, "InvalidTreasuryAddress")
  ELSE Ok([s EXCEPT !.treasury = _treasury])

setFractionalizationAddress(s, sender, _fractionalization) ==
  IF ~onlyOwner(sender) THEN Fail(s, "OwnableUnauthorizedAccount")
  ELSE IF _fractionalization = ZERO THEN Fail(s, "InvalidFractionalizationAddress")
  ELSE Ok([s EXCEPT !.fractionalization = _fractionalization])

setUSDCAddress(s, sender, _usdcToken) ==
  IF ~onlyOwner(sender) THEN Fail(s, "OwnableUnauthorizedAccount")
  ELSE IF _usdcToken = ZERO THEN Fail(s, "InvalidUSDCAddress")
  ELSE Ok([s EXCEPT !.usdcToken = _usdcToken])

setETHUSDPriceFeed(s, sender, _priceFeed) ==
  IF ~onlyOwner(sender) THEN Fail(s, "OwnableUnauthorizedAccount")
  ELSE IF _priceFeed = ZERO THEN Fail(s, "InvalidPriceFeedAddress")
  ELSE Ok([s EXCEPT !.ethUsdPriceFeed = _priceFeed])

setFallbackETHPrice(s, sender, price) ==
  IF ~onlyOwner(sender) THEN Fail(s, "OwnableUnauthorizedAccount")
  ELSE IF price = 0 THEN Fail(s, "InvalidPriceFromOracle")
  ELSE IF ~(price >= MIN_ETH_PRICE) THEN Fail(s, "FallbackPriceBelowMinimum")
  ELSE Ok([s EXCEPT !.fallbackETHPrice = price, !.fallbackPriceTimestamp = s.now])

withdraw(s, sender) ==
  IF ~onlyOwner(sender) THEN Fail(s, "OwnableUnauthorizedAccount")
  ELSE OkPaid(Pay(s, REGISTRY, sender, s.eth[REGISTRY]), 0, s.eth[REGISTRY])

\* ---------------------------------------------------------------- state
VARIABLES now, domainInfo, tldPrices, ownerDomains, treasury, fractionalization,
          usdcToken, ethUsdPriceFeed, fallbackETHPrice, fallbackPriceTimestamp,
          treasuryBalances, domainFeePercentages, eth,
          gracePeriod, domainTokens, fractionalizationInfo, tokenHolders,
          holderBalances, tokens, last

vars == <<now, domainInfo, tldPrices, ownerDomains, treasury, fractionalization,
          usdcToken, ethUsdPriceFeed, fallbackETHPrice, fallbackPriceTimestamp,
          treasuryBalances, domainFeePercentages, eth,
          gracePeriod, domainTokens, fractionalizationInfo, tokenHolders,
          holderBalances, tokens, last>>

\* The ledger state the contracts' functions read and write.
S == [now |-> now, domainInfo |-> domainInfo, tldPrices |-> tldPrices,
      ownerDomains |-> ownerDomains, treasury |-> treasury,
      fractionalization |-> fractionalization, usdcToken |-> usdcToken,
      ethUsdPriceFeed |-> ethUsdPriceFeed, fallbackETHPrice |-> fallbackETHPrice,
      fallbackPriceTimestamp |-> fallbackPriceTimestamp,
      treasuryBalances |-> treasuryBalances,
      domainFeePercentages |-> domainFeePercentages, eth |-> eth,
      gracePeriod |-> gracePeriod, domainTokens |-> domainTokens,
      fractionalizationInfo |-> fractionalizationInfo, tokenHolders |-> tokenHolders,
      holderBalances |-> holderBalances, tokens |-> tokens]

NoCall == [op |-> "none", sender |-> ZERO, domain |-> <<>>, numYears |-> 0, value |-> 0,
           fee |-> 0, refund |-> 0]

\* The record of the last call that went through: its arguments, the fee it
\* paid to the treasury and the refund it sent back.
Call(op, sender, domain, numYears, value, r) ==
  [op |-> op, sender |-> sender, domain |-> domain, numYears |-> numYears,
   value |-> value, fee |-> r.fee, refund |-> r.refund]

\* Model bound on the years counter (the code's own bound is 100).
WithinModel(r) == \A k \in Keys : r.st.domainInfo[k].yearsPurchased <= MaxModelYears

\* Commit the result of a call: the new storage and the record of the call;
\* a reverted call leaves every variable as it was.
Apply(r, l) ==
  IF r.ok
  THEN /\ WithinModel(r)
       /\ now' = now
       /\ domainInfo' = r.st.domainInfo
       /\ tldPrices' = r.st.tldPrices
       /\ ownerDomains' = r.st.ownerDomains
       /\ treasury' = r.st.treasury
       /\ fractionalization' = r.st.fractionalization
       /\ usdcToken' = r.st.usdcToken
       /\ ethUsdPriceFeed' = r.st.ethUsdPriceFeed
       /\ fallbackETHPrice' = r.st.fallbackETHPrice
       /\ fallbackPriceTimestamp' = r.st.fallbackPriceTimestamp
       /\ treasuryBalances' = r.st.treasuryBalances
       /\ domainFeePercentages' = r.st.domainFeePercentages
       /\ eth' = r.st.eth
       /\ gracePeriod' = r.st.gracePeriod
       /\ domainTokens' = r.st.domainTokens
       /\ fractionalizationInfo' = r.st.fractionalizationInfo
       /\ tokenHolders' = r.st.tokenHolders
       /\ holderBalances' = r.st.holderBalances
       /\ tokens' = r.st.tokens
       /\ last' = l
  ELSE UNCHANGED vars

Init ==
  /\ now = 0
  /\ domainInfo = [k \in Keys |-> EmptyInfo]
  /\ tldPrices = [t \in TldInputs |-> 0]
  /\ ownerDomains = [a \in EOAs |-> <<>>]
  /\ treasury = ZERO
  /\ fractionalization = ZERO
  /\ usdcToken = ZERO
  /\ ethUsdPriceFeed = ZERO
  /\ fallbackETHPrice = 0
  /\ fallbackPriceTimestamp = 0
  /\ treasuryBalances = [k \in Keys |-> 0]
  /\ domainFeePercentages = [k \in Keys |-> 0]
  /\ eth = [c \in Contracts |-> 0]
  /\ gracePeriod = 1 * DAYS
  /\ domainTokens = [k \in Keys |-> ZERO]
  /\ fractionalizationInfo = [k \in Keys |-> EmptyFracInfo]
  /\ tokenHolders = [k \in Keys |-> <<>>]
  /\ holderBalances = [k \in Keys |-> [h \in Holders |-> 0]]
  /\ tokens = [k \in Keys |-> EmptyToken]
  /\ last = NoCall

\* ---------------------------------------------------------------- inputs
\* The arguments the properties quantify over, rejected ones included.
YearInputs == {0, 1, 2, 10, 11}
PaymentInputs == {0, 100, 199, 220, 10100}
FullInputs == {Packed(n, t) : n \in NameInputs, t \in TldInputs}
Addresses == EOAs \cup Contracts \cup {ZERO}

\* The arguments the actions call with: a scope names the domain names,
\* year counts, payments and contract addresses of one specification.
PriceChoices == {100}
FeePercentageChoices == {1000, 1001}
AmountChoices == {2, 101}
TldChoices == {<<99>>}
Wide == [names |-> {<<97>>, <<65>>, <<98>>}, years |-> {1, 2}, values |-> {220, 10100},
         treasuries |-> {ZERO, TREASURY, BOB}, fractionalizations |-> {ZERO, FRAC, BOB}]
FullChoices(sc) == {Packed(n, t) : n \in sc.names, t \in TldChoices}
BatchItems(sc) == {[domain |-> n, tld |-> t, numYears |-> 1] : n \in sc.names, t \in TldChoices}
Batches(sc) == {<<>>} \cup {<<x>> : x \in BatchItems(sc)}
                      \cup {<<x, y>> : x, y \in BatchItems(sc)}
UsdcAmounts == {1000000}
FeedAnswers == {[reverts |-> TRUE, priceInt |-> 0, updatedAt |-> 0],
                [reverts |-> FALSE, priceInt |-> 2000, updatedAt |-> now]}

\* ---------------------------------------------------------------- actions
Unchanged == UNCHANGED <<domainInfo, tldPrices, ownerDomains, treasury, fractionalization,
                         usdcToken, ethUsdPriceFeed, fallbackETHPrice, fallbackPriceTimestamp,
                         treasuryBalances, domainFeePercentages, eth,
                         gracePeriod, domainTokens, fractionalizationInfo, tokenHolders,
                         holderBalances, tokens>>

\* block.timestamp moves on by a year or by a day.
TickYear ==
  /\ now \div YearLen < MaxYearTicks
  /\ now' = now + YearLen
  /\ last' = NoCall
  /\ Unchanged

TickDay ==
  /\ (now % YearLen) \div DAYS < MaxDayTicks
  /\ now' = now + DAYS
  /\ last' = NoCall
  /\ Unchanged

SetTLDPrice ==
  \E sender \in {ADMIN, ALICE}, tld \in TldChoices, price \in PriceChoices :
    Apply(setTLDPrice(S, sender, tld, price), NoCall)

SetTreasuryAddress(sc) ==
  \E sender \in {ADMIN, ALICE}, a \in sc.treasuries :
    Apply(setTreasuryAddress(S, sender, a), NoCall)

SetFractionalizationAddress(sc) ==
  \E sender \in {ADMIN, ALICE}, a \in sc.fractionalizations :
    Apply(setFractionalizationAddress(S, sender, a), NoCall)

SetUSDCAddress ==
  \E sender \in {ADMIN, ALICE}, a \in {USDC} :
    Apply(setUSDCAddress(S, sender, a), NoCall)

SetETHUSDPriceFeed ==
  \E sender \in {ADMIN, ALICE}, a \in {FEED} :
    Apply(setETHUSDPriceFeed(S, sender, a), NoCall)

SetFallbackETHPrice ==
  \E sender \in {ADMIN, ALICE}, price \in {499, 2000} :
    Apply(setFallbackETHPrice(S, sender, price), NoCall)

Withdraw ==
  \E sender \in {ADMIN, ALICE} :
    LET r == withdraw(S, sender)
    IN Apply(r, Call("withdraw", sender, <<>>, 0, 0, r))

RegisterDomain(sc) ==
  \E sender \in Users, domain \in sc.names, tld \in TldChoices,
     numYears \in sc.years, value \in sc.values :
    LET r == registerDomain(S, sender, domain, tld, numYears, value)
    IN Apply(r, Call("registerDomain", sender,
                     Packed(_normalizeDomain(domain), _normalizeDomain(tld)), numYears, value, r))

RegisterDomainWithUSDC(sc) ==
  \E sender \in Users, domain \in sc.names, tld \in TldChoices,
     numYears \in sc.years, usdcAmount \in UsdcAmounts, feed \in FeedAnswers,
     pays \in BOOLEAN :
    LET r == registerDomainWithUSDC(S, sender, domain, tld, numYears, usdcAmount, feed, pays)
    IN Apply(r, Call("registerDomainWithUSDC", sender,
                     Packed(_normalizeDomain(domain), _normalizeDomain(tld)), numYears, 0, r))

RenewDomain(sc) ==
  \E sender \in Users, domain \in sc.names, tld \in TldChoices,
     numYears \in sc.years, value \in sc.values :
    LET r == renewDomain(S, sender, domain, tld, numYears, value)
    IN Apply(r, Call("renewDomain", sender,
                     Packed(_normalizeDomain(domain), _normalizeDomain(tld)), numYears, value, r))

RenewDomainWithUSDC(sc) ==
  \E sender \in Users, domain \in sc.names, tld \in TldChoices,
     numYears \in sc.years, usdcAmount \in UsdcAmounts, feed \in FeedAnswers,
     pays \in BOOLEAN :
    LET r == renewDomainWithUSDC(S, sender, domain, tld, numYears, usdcAmount, feed, pays)
    IN Apply(r, Call("renewDomainWithUSDC", sender,
                     Packed(_normalizeDomain(domain), _normalizeDomain(tld)), numYears, 0, r))

BatchRegisterDomains(sc) ==
  \E sender \in Users, items \in Batches(sc), value \in sc.values :
    LET r == batchRegisterDomainsArrays(S, sender, [i \in 1..Len(items) |-> items[i].domain],
             [i \in 1..Len(items) |-> items[i].tld],
             [i \in 1..Len(items) |-> items[i].numYears], value)
    IN Apply(r, Call("batchRegisterDomains", sender,
                     IF items = <<>> THEN <<>> ELSE FullOf(items[1]), Len(items), value, r))

BatchRenewDomains(sc) ==
  \E sender \in Users, items \in Batches(sc), value \in sc.values :
    LET r == batchRenewDomainsArrays(S, sender, [i \in 1..Len(items) |-> items[i].domain],
             [i \in 1..Len(items) |-> items[i].tld],
             [i \in 1..Len(items) |-> items[i].numYears], value)
    IN Apply(r, Call("batchRenewDomains", sender,
                     IF items = <<>> THEN <<>> ELSE FullOf(items[1]), Len(items), value, r))

TransferDomain(sc) ==
  \E sender \in Users, domain \in FullChoices(sc), newOwner \in Users :
    LET r == transferDomain(S, sender, domain, newOwner)
    IN Apply(r, Call("transferDomain", sender, _normalizeDomain(domain), 0, 0, r))

TransferDomainOwnership(sc) ==
  \E sender \in EOAs, domain \in FullChoices(sc), newOwner \in Users :
    LET r == transferDomainOwnership(S, sender, domain, newOwner)
    IN Apply(r, Call("transferDomainOwnership", sender, _normalizeDomain(domain), 0, 0, r))

RenewDomainFromTreasury(sc) ==
  \E sender \in EOAs, domain \in sc.names, tld \in TldChoices, numYears \in sc.years :
    LET r == renewDomainFromTreasury(S, sender, domain, tld, numYears, 0)
    IN Apply(r, Call("renewDomainFromTreasury", sender,
                     Packed(_normalizeDomain(domain), _normalizeDomain(tld)), numYears, 0, r))

DepositFee(sc) ==
  \E sender \in EOAs, domain \in FullChoices(sc), value \in {0, 1} :
    LET r == depositFee(S, Pay(S, sender, TREASURY, value), sender, domain, value)
    IN Apply(r, Call("depositFee", sender, domain, 0, value, r))

SetDomainFeePercentage(sc) ==
  \E sender \in Users, domain \in FullChoices(sc), percentage \in FeePercentageChoices :
    LET r == setDomainFeePercentage(S, sender, domain, percentage)
    IN Apply(r, Call("setDomainFeePercentage", sender, domain, 0, percentage, r))

AutoRenewDomain(sc) ==
  \E sender \in Users, domain \in sc.names, tld \in TldChoices, numYears \in sc.years :
    LET r == autoRenewDomain(S, sender, domain, tld, numYears)
    IN Apply(r, Call("autoRenewDomain", sender, Packed(domain, tld), numYears, 0, r))

WithdrawExcess(sc) ==
  \E sender \in Users, domain \in FullChoices(sc), amount \in AmountChoices,
     receiver \in ReceiverKinds :
    LET r == withdrawExcess(S, sender, domain, amount, receiver)
    IN Apply(r, Call("withdrawExcess", sender, domain, 0, amount, r))

SetGracePeriod ==
  \E sender \in {ADMIN, ALICE}, g \in {0, 1 * DAYS, 31 * DAYS} :
    Apply(setGracePeriod(S, sender, g), NoCall)

EnableFractionalization(sc) ==
  \E sender \in Users, domain \in FullChoices(sc), publicTokenPrice \in {0, 1} :
    LET r == enableFractionalization(S, sender, domain, publicTokenPrice)
    IN Apply(r, Call("enableFractionalization", sender, domain, 0, publicTokenPrice, r))

BurnAndTransfer(sc) ==
  \E sender \in Users, domain \in FullChoices(sc) :
    LET r == burnAndTransfer(S, sender, domain)
    IN Apply(r, Call("burnAndTransfer", sender, domain, 0, 0, r))

PurchasePublicTokens(sc) ==
  \E sender \in Users, domain \in FullChoices(sc), numTokens \in {0, 1, 6}, value \in {0, 1} :
    LET r == purchasePublicTokens(S, sender, domain, numTokens, value)
    IN Apply(r, Call("purchasePublicTokens", sender, domain, numTokens, value, r))

UnlockOwnerTokens(sc) ==
  \E sender \in Users, domain \in FullChoices(sc) :
    LET r == unlockOwnerTokens(S, sender, domain)
    IN Apply(r, Call("unlockOwnerTokens", sender, domain, 0, 0, r))

OnTokenTransfer(sc) ==
  \E sender \in Users, domain \in FullChoices(sc), to \in Users :
    LET r == onTokenTransfer(S, S, sender, domain, ZERO, to, 1)
    IN Apply(r, Call("onTokenTransfer", sender, domain, 0, 1, r))

\* ---------------------------------------------------------------- specifications
\* Every function of the three contracts, with the widest arguments.
Next ==
  \/ TickYear
  \/ TickDay
  \/ SetTLDPrice
  \/ SetTreasuryAddress(Wide)
  \/ SetFractionalizationAddress(Wide)
  \/ SetUSDCAddress
  \/ SetETHUSDPriceFeed
  \/ SetFallbackETHPrice
  \/ Withdraw
  \/ RegisterDomain(Wide)
  \/ RegisterDomainWithUSDC(Wide)
  \/ RenewDomain(Wide)
  \/ RenewDomainWithUSDC(Wide)
  \/ BatchRegisterDomains(Wide)
  \/ BatchRenewDomains(Wide)
  \/ TransferDomain(Wide)
  \/ TransferDomainOwnership(Wide)
  \/ RenewDomainFromTreasury(Wide)
  \/ DepositFee(Wide)
  \/ SetDomainFeePercentage(Wide)
  \/ AutoRenewDomain(Wide)
  \/ WithdrawExcess(Wide)
  \/ SetGracePeriod
  \/ EnableFractionalization(Wide)
  \/ BurnAndTransfer(Wide)
  \/ PurchasePublicTokens(Wide)
  \/ UnlockOwnerTokens(Wide)
  \/ OnTokenTransfer(Wide)

Spec == Init /\ [][Next]_vars

\* One registered name (in two spellings), the treasury contract, fees,
\* renewals, auto-renewal and the passage of time.
OneName == [names |-> {<<97>>, <<65>>}, years |-> {1, 2}, values |-> {220, 10100},
            treasuries |-> {TREASURY}, fractionalizations |-> {FRAC}]

NextLedger ==
  \/ TickYear
  \/ TickDay
  \/ SetTLDPrice
  \/ SetTreasuryAddress(OneName)
  \/ RegisterDomain(OneName)
  \/ RenewDomain(OneName)
  \/ TransferDomain(OneName)
  \/ SetDomainFeePercentage(OneName)
  \/ AutoRenewDomain(OneName)

SpecLedger == Init /\ [][NextLedger]_vars

\* Two names under the treasury contract: fees credited per domain.
TwoNames == [names |-> {<<97>>, <<98>>}, years |-> {1}, values |-> {220},
             treasuries |-> {TREASURY}, fractionalizations |-> {BOB}]

NextFees ==
  \/ SetTLDPrice
  \/ SetTreasuryAddress(TwoNames)
  \/ RegisterDomain(TwoNames)
  \/ RenewDomain(TwoNames)
  \/ SetDomainFeePercentage(TwoNames)

SpecFees == Init /\ [][NextFees]_vars

\* Two names and every function that writes the owner index: the three ways
\* to register, renewal, both transfers, and the lapse of a registration.
NextIndex ==
  \/ TickYear
  \/ SetTLDPrice
  \/ SetFractionalizationAddress(TwoNames)
  \/ SetUSDCAddress
  \/ SetETHUSDPriceFeed
  \/ RegisterDomain(TwoNames)
  \/ RegisterDomainWithUSDC(TwoNames)
  \/ BatchRegisterDomains(TwoNames)
  \/ RenewDomain(TwoNames)
  \/ TransferDomain(TwoNames)
  \/ TransferDomainOwnership(TwoNames)

SpecIndex == Init /\ [][NextIndex]_vars

\* One name and the three entry points reserved to one caller, with the
\* treasury and fractionalization addresses set to a contract or an account.
Callers == [names |-> {<<97>>}, years |-> {1}, values |-> {220},
            treasuries |-> {TREASURY, BOB}, fractionalizations |-> {FRAC, BOB}]

NextAccess ==
  \/ TickYear
  \/ SetTLDPrice
  \/ SetTreasuryAddress(Callers)
  \/ SetFractionalizationAddress(Callers)
  \/ RegisterDomain(Callers)
  \/ DepositFee(Callers)
  \/ RenewDomainFromTreasury(Callers)
  \/ TransferDomainOwnership(Callers)

SpecAccess == Init /\ [][NextAccess]_vars

\* The share functions over one registered name: registration, renewal and
\* transfer of the domain, then enabling, purchase and unlock of its shares.
Shares == [names |-> {<<97>>}, years |-> {1, 2}, values |-> {220},
           treasuries |-> {TREASURY}, fractionalizations |-> {FRAC}]

NextShares ==
  \/ TickYear
  \/ TickDay
  \/ SetTLDPrice
  \/ SetFractionalizationAddress(Shares)
  \/ RegisterDomain(Shares)
  \/ RenewDomain(Shares)
  \/ TransferDomain(Shares)
  \/ EnableFractionalization(Shares)
  \/ PurchasePublicTokens(Shares)
  \/ UnlockOwnerTokens(Shares)

SpecShares == Init /\ [][NextShares]_vars

\* The paying functions of the registry with the treasury set to the
\* DomainTreasury or to an address that has no calculateFee.
FeeCalls == [names |-> {<<97>>}, years |-> {1}, values |-> {220},
             treasuries |-> {TREASURY, BOB}, fractionalizations |-> {FRAC}]

NextFeeCalls ==
  \/ TickYear
  \/ SetTLDPrice
  \/ SetTreasuryAddress(FeeCalls)
  \/ SetUSDCAddress
  \/ SetFallbackETHPrice
  \/ RegisterDomain(FeeCalls)
  \/ RegisterDomainWithUSDC(FeeCalls)
  \/ RenewDomain(FeeCalls)
  \/ RenewDomainWithUSDC(FeeCalls)
  \/ BatchRegisterDomains(FeeCalls)
  \/ BatchRenewDomains(FeeCalls)

SpecFeeCalls == Init /\ [][NextFeeCalls]_vars

\* The price oracle: feed and fallback configuration, the passage of time
\* and the USDC functions that convert with the price.
Oracle == [names |-> {<<97>>}, years |-> {1}, values |-> {220},
           treasuries |-> {TREASURY}, fractionalizations |-> {FRAC}]

NextOracle ==
  \/ TickYear
  \/ TickDay
  \/ SetTLDPrice
  \/ SetUSDCAddress
  \/ SetETHUSDPriceFeed
  \/ SetFallbackETHPrice
  \/ RegisterDomainWithUSDC(Oracle)
  \/ RenewDomainWithUSDC(Oracle)

SpecOracle == Init /\ [][NextOracle]_vars

\* One name, fees to the treasury contract, and the batch functions next to
\* the single registration.
Batched == [names |-> {<<97>>}, years |-> {1}, values |-> {220},
            treasuries |-> {TREASURY}, fractionalizations |-> {FRAC}]

NextBatches ==
  \/ TickYear
  \/ SetTLDPrice
  \/ SetTreasuryAddress(Batched)
  \/ RegisterDomain(Batched)
  \/ BatchRegisterDomains(Batched)
  \/ BatchRenewDomains(Batched)

SpecBatches == Init /\ [][NextBatches]_vars

\* One name whose fees accrue in the treasury, and their withdrawal.
Withdrawals == [names |-> {<<97>>}, years |-> {1, 2}, values |-> {220},
                treasuries |-> {TREASURY}, fractionalizations |-> {FRAC}]

NextWithdrawals ==
  \/ TickYear
  \/ SetTLDPrice
  \/ SetTreasuryAddress(Withdrawals)
  \/ RegisterDomain(Withdrawals)
  \/ RenewDomain(Withdrawals)
  \/ TransferDomain(Withdrawals)
  \/ WithdrawExcess(Withdrawals)

SpecWithdrawals == Init /\ [][NextWithdrawals]_vars

\* One name and the four ways to renew it: by its owner in ether or in USDC,
\* in a batch, and by the treasury address.
NextRenewals ==
  \/ TickYear
  \/ SetTLDPrice
  \/ SetTreasuryAddress(Callers)
  \/ SetUSDCAddress
  \/ SetFallbackETHPrice
  \/ RegisterDomain(Callers)
  \/ RenewDomain(Callers)
  \/ RenewDomainWithUSDC(Callers)
  \/ BatchRenewDomains(Callers)
  \/ RenewDomainFromTreasury(Callers)
  \/ AutoRenewDomain(Callers)

SpecRenewals == Init /\ [][NextRenewals]_vars

\* The treasury's funds: every call that moves ether into or out of the
\* treasury contract or writes a treasury balance.
NextFunds ==
  \/ TickYear
  \/ SetTLDPrice
  \/ SetTreasuryAddress(Withdrawals)
  \/ SetUSDCAddress
  \/ SetFallbackETHPrice
  \/ RegisterDomain(Withdrawals)
  \/ RegisterDomainWithUSDC(Withdrawals)
  \/ RenewDomain(Withdrawals)
  \/ BatchRenewDomains(Withdrawals)
  \/ DepositFee(Withdrawals)
  \/ AutoRenewDomain(Withdrawals)
  \/ WithdrawExcess(Withdrawals)

SpecFunds == Init /\ [][NextFunds]_vars

\* One name through its whole life: registered in each of the three ways,
\* renewed in each of the four, transferred by its owner and by the
\* fractionalization address, lapsed and registered again.
Lifetimes == [names |-> {<<97>>}, years |-> {1, 2}, values |-> {220},
              treasuries |-> {BOB}, fractionalizations |-> {BOB}]

NextLifetimes ==
  \/ TickYear
  \/ SetTLDPrice
  \/ SetTreasuryAddress(Lifetimes)
  \/ SetFractionalizationAddress(Lifetimes)
  \/ SetUSDCAddress
  \/ SetFallbackETHPrice
  \/ RegisterDomain(Lifetimes)
  \/ RegisterDomainWithUSDC(Lifetimes)
  \/ BatchRegisterDomains(Lifetimes)
  \/ RenewDomain(Lifetimes)
  \/ RenewDomainWithUSDC(Lifetimes)
  \/ BatchRenewDomains(Lifetimes)
  \/ RenewDomainFromTreasury(Lifetimes)
  \/ TransferDomain(Lifetimes)
  \/ TransferDomainOwnership(Lifetimes)

SpecLifetimes == Init /\ [][NextLifetimes]_vars

\* ---------------------------------------------------------------- properties
\* The storage key of a domain as the contracts' callers spell it.
Dom(domain, tld) == Packed(_normalizeDomain(domain), _normalizeDomain(tld))
ValidYears == {y \in YearInputs : y >= 1 /\ y <= 10}

C2_FirstRegistrationWins ==
  last.op = "registerDomain" =>
    /\ domainInfo[last.domain].owner = last.sender
    /\ \A other \in Users \ {last.sender}, n \in NameInputs, t \in TldInputs,
          y \in ValidYears, v \in PaymentInputs :
         Dom(n, t) = last.domain =>
           LET r == registerDomain(S, other, n, t, y, v)
           IN /\ ~r.ok
              /\ r.err = "DomainNotAvailable"
              /\ r.st.domainInfo[last.domain].owner = last.sender
              /\ r.st.eth = eth
              /\ r.st.treasuryBalances = treasuryBalances

\* Alice has just registered a.c; Bob's registration of A.c with a sufficient
\* payment is refused.
C2_Witness ==
  /\ last.op = "registerDomain"
  /\ last.sender = ALICE
  /\ last.domain = <<97, 46, 99>>
  /\ tldPrices[<<99>>] = 100
  /\ registerDomain(S, BOB, <<65>>, <<99>>, 1, 220).err = "DomainNotAvailable"

\* C3: a successful renewDomain or batchRenewDomains for y years of a domain
\* whose expiration E is still ahead sets the expiration to E + y * 365 days,
\* whatever now is, and leaves the owner and the registration timestamp alone.
C3_RenewalExtendsFromExpiration ==
  \A sender \in Users, n \in NameInputs, t \in TldInputs, y \in YearInputs, v \in PaymentInputs :
    LET d == Dom(n, t)
        E == domainInfo[d].expirationTimestamp
        r == renewDomain(S, sender, n, t, y, v)
        b == batchRenewDomains(S, sender, <<[domain |-> n, tld |-> t, numYears |-> y]>>, v)
    IN /\ (r.ok /\ now < E) =>
            /\ r.st.domainInfo[d].expirationTimestamp = E + y * YearLen
            /\ r.st.domainInfo[d].owner = domainInfo[d].owner
            /\ r.st.domainInfo[d].registrationTimestamp = domainInfo[d].registrationTimestamp
       /\ (b.ok /\ now < E) =>
            /\ b.st.domainInfo[d].expirationTimestamp = E + y * YearLen
            /\ b.st.domainInfo[d].owner = domainInfo[d].owner
            /\ b.st.domainInfo[d].registrationTimestamp = domainInfo[d].registrationTimestamp

\* A renewal made a day after the registration: the expiration is the
\* registration time plus the years bought, not now plus the renewal.
C3_Witness ==
  /\ last.op = "renewDomain"
  /\ now = domainInfo[last.domain].registrationTimestamp + DAYS
  /\ domainInfo[last.domain].yearsPurchased = 2
  /\ domainInfo[last.domain].expirationTimestamp =
       domainInfo[last.domain].registrationTimestamp + 2 * YearLen

\* C5: a successful registerDomain or renewDomain with payment v refunds
\* v - F - price, F being the treasury's calculateFee on v (0 while no
\* treasury is configured) and price the per-year price times the years, and
\* the registry's balance grows by price.  The spec's example: at 100 a
\* year, 2 years paid with 220 under the default 1% fee on a domain with no
\* treasury balance give fee 2, refund 18, balance 2, years 2 and an
\* expiration two years from now.
C5_RefundAndRetainedPrice ==
  /\ \A sender \in Users, n \in NameInputs, t \in TldInputs, y \in YearInputs, v \in PaymentInputs :
       LET d == Dom(n, t)
           price == tldPrices[_normalizeDomain(t)] * y
           F == IF treasury = ZERO THEN 0 ELSE calculateFee(S, d, v)
           r == registerDomain(S, sender, n, t, y, v)
           w == renewDomain(S, sender, n, t, y, v)
       IN /\ r.ok => /\ r.fee = F
                     /\ r.refund = v - F - price
                     /\ r.st.eth[REGISTRY] = eth[REGISTRY] + price
          /\ w.ok => /\ w.fee = F
                     /\ w.refund = v - F - price
                     /\ w.st.eth[REGISTRY] = eth[REGISTRY] + price
  /\ LET d == <<97, 46, 99>>
         r == registerDomain(S, ALICE, <<97>>, <<99>>, 2, 220)
     IN (/\ tldPrices[<<99>>] = 100
         /\ treasury = TREASURY
         /\ domainFeePercentages[d] = 0
         /\ treasuryBalances[d] = 0
         /\ isDomainAvailable(S, d)) =>
          /\ r.ok
          /\ r.fee = 2
          /\ r.refund = 18
          /\ r.st.treasuryBalances[d] = 2
          /\ r.st.domainInfo[d].owner = ALICE
          /\ r.st.domainInfo[d].yearsPurchased = 2
          /\ r.st.domainInfo[d].expirationTimestamp = now + 2 * 365 * DAYS

\* The example has just happened.
C5_Witness ==
  /\ last.op = "registerDomain"
  /\ last.numYears = 2
  /\ last.value = 220
  /\ last.fee = 2
  /\ last.refund = 18
  /\ treasuryBalances[last.domain] = 2
  /\ eth[REGISTRY] = 200
  /\ domainInfo[last.domain].yearsPurchased = 2
  /\ domainInfo[last.domain].expirationTimestamp = now + 2 * 365 * DAYS

\* C8: when autoRenewDomain gets as far as the registry call (owner calling,
\* valid years, price set, balance covering the cost) and that call fails,
\* autoRenewDomain fails, and the domain's treasury balance, its record and the
\* contracts' balances are what they were; no treasury balance is negative.
C8_FailedAutoRenewRollsBack ==
  /\ \A k \in Keys : treasuryBalances[k] >= 0
  /\ \A sender \in Users, n \in NameInputs, t \in TldInputs, y \in YearInputs :
       LET d == Packed(n, t)
           p == getDomainPrice(S, t, y)
           s1 == [S EXCEPT !.treasuryBalances[d] = @ - p.price]
           r == autoRenewDomain(S, sender, n, t, y)
       IN (/\ domainInfo[d].owner = sender
           /\ y \in ValidYears
           /\ p.ok
           /\ treasuryBalances[d] >= p.price
           /\ ~RenewalCall(s1, n, t, y, p.price).ok) =>
            /\ ~r.ok
            /\ r.st.treasuryBalances = treasuryBalances
            /\ r.st.domainInfo = domainInfo
            /\ r.st.eth = eth

\* Alice owns a.c, its treasury balance covers a year, and her autoRenewDomain
\* fails at the registry call.
C8_Witness ==
  /\ domainInfo[<<97, 46, 99>>].owner = ALICE
  /\ tldPrices[<<99>>] = 100
  /\ treasuryBalances[<<97, 46, 99>>] >= 100
  /\ ~RenewalCall([S EXCEPT !.treasuryBalances[<<97, 46, 99>>] = @ - 100],
                  <<97>>, <<99>>, 1, 100).ok
  /\ autoRenewDomain(S, ALICE, <<97>>, <<99>>, 1).err = "RenewalFailed"

\* C9: autoRenewDomain called by the recorded owner with years in 1..10, a
\* price set and a treasury balance covering the cost succeeds, takes the cost
\* off the balance and extends the expiration by years * 365 days.
C9_AutoRenewSucceeds ==
  \A sender \in Users, n \in NameInputs, t \in TldInputs, y \in YearInputs :
    LET d == Packed(n, t)
        p == getDomainPrice(S, t, y)
        r == autoRenewDomain(S, sender, n, t, y)
    IN (/\ domainInfo[d].owner = sender
        /\ y \in ValidYears
        /\ p.ok
        /\ treasuryBalances[d] >= p.price) =>
         /\ r.ok
         /\ r.st.treasuryBalances[d] = treasuryBalances[d] - p.price
         /\ r.st.domainInfo[d].expirationTimestamp =
              domainInfo[d].expirationTimestamp + y * YearLen

\* C4: for a successful registerDomain or renewDomain of d with payment v,
\* F being the fee the treasury computes for it, F <= v, the treasury
\* balance of d grows by exactly F and every other balance stays as it is.
C4_FeeConservation ==
  \A sender \in Users, n \in NameInputs, t \in TldInputs, y \in YearInputs, v \in PaymentInputs :
    LET d == Dom(n, t)
        F == IF treasury = ZERO THEN 0 ELSE calculateFee(S, d, v)
        r == registerDomain(S, sender, n, t, y, v)
        w == renewDomain(S, sender, n, t, y, v)
    IN /\ r.ok =>
            /\ F <= v
            /\ r.st.treasuryBalances[d] = treasuryBalances[d] + F
            /\ \A k \in Keys \ {d} : r.st.treasuryBalances[k] = treasuryBalances[k]
       /\ w.ok =>
            /\ F <= v
            /\ w.st.treasuryBalances[d] = treasuryBalances[d] + F
            /\ \A k \in Keys \ {d} : w.st.treasuryBalances[k] = treasuryBalances[k]

\* A renewal has just added its fee to a balance that already held the
\* registration's fee, while the other domain holds a balance of its own.
C4_Witness ==
  /\ last.op = "renewDomain"
  /\ last.fee > 0
  /\ treasuryBalances[last.domain] > last.fee
  /\ \E k \in Keys \ {last.domain} : treasuryBalances[k] > 0

\* The number of times a domain occurs in an owner's array.
Count(list, x) == Cardinality({i \in 1..Len(list) : list[i] = x})

\* C6: every domain with a recorded owner occurs exactly once in that
\* owner's array of ownerDomains and in nobody else's.
C6_OwnerIndexConsistent ==
  \A k \in Keys :
    domainInfo[k].owner # ZERO =>
      \A a \in EOAs : Count(ownerDomains[a], k) = IF a = domainInfo[k].owner THEN 1 ELSE 0

\* Alice, who registered a.c before b.c, has just transferred a.c to Bob: the
\* removal swapped b.c into the place of a.c.
C6_Witness ==
  /\ last.op = "transferDomain"
  /\ last.sender = ALICE
  /\ last.domain = <<97, 46, 99>>
  /\ domainInfo[<<97, 46, 99>>].owner = BOB
  /\ domainInfo[<<97, 46, 99>>].registrationTimestamp
       < domainInfo[<<98, 46, 99>>].registrationTimestamp
  /\ ownerDomains[ALICE] = << <<98, 46, 99>> >>
  /\ ownerDomains[BOB] = << <<97, 46, 99>> >>

\* C7: depositFee from anyone but the registry, renewDomainFromTreasury from
\* anyone but the configured treasury and transferDomainOwnership from anyone
\* but the configured fractionalization address fail and change nothing; the
\* callers tried include the domain's owner and the administrator.
C7_ReservedCallers ==
  \A sender \in EOAs \cup Contracts :
    /\ \A d \in FullInputs, v \in {0, 1} :
         LET r == depositFee(S, Pay(S, sender, TREASURY, v), sender, d, v)
         IN sender # REGISTRY => ~r.ok /\ r.st = S
    /\ \A n \in NameInputs, t \in TldInputs, y \in YearInputs :
         LET r == renewDomainFromTreasury(S, sender, n, t, y, 0)
         IN sender # treasury => ~r.ok /\ r.st = S
    /\ \A d \in FullInputs, newOwner \in Users :
         LET r == transferDomainOwnership(S, sender, d, newOwner)
         IN sender # fractionalization => ~r.ok /\ r.st = S

\* The configured treasury has just renewed a.c; the same call from the
\* domain's owner, a transfer by the administrator and a deposit by the
\* administrator are all refused.
C7_Witness ==
  /\ last.op = "renewDomainFromTreasury"
  /\ last.sender = treasury
  /\ fractionalization # ZERO
  /\ domainInfo[<<97, 46, 99>>].owner = ALICE
  /\ renewDomainFromTreasury(S, ALICE, <<97>>, <<99>>, 1, 0).err = "OnlyTreasuryCanRenew"
  /\ transferDomainOwnership(S, ADMIN, <<97, 46, 99>>, BOB).err = "NotDomainOwner"
  /\ depositFee(S, Pay(S, ADMIN, TREASURY, 1), ADMIN, <<97, 46, 99>>, 1).err = "OnlyTLDRegistry"

\* C13: enableFractionalization called by the domain's registry owner with a
\* positive price, for a domain that is not expired and not yet enabled,
\* succeeds: the token exists, half of the total supply is minted locked to
\* the caller until the domain's expiration, and the enabled record is stored
\* with that owner, unlock timestamp and price.
C13_EnableSucceeds ==
  \A sender \in Users, domain \in Keys, price \in {1, 2} :
    (/\ domainInfo[domain].owner = sender
     /\ domainInfo[domain].expirationTimestamp > now
     /\ ~fractionalizationInfo[domain].isEnabled)
    => LET r == enableFractionalization(S, sender, domain, price)
           tk == r.st.tokens[domain]
       IN /\ r.ok
          /\ tk.deployed
          /\ tk.totalSupply = OWNER_SHARE
          /\ tk.balances[sender] = OWNER_SHARE
          /\ tk.lockedSupply = OWNER_SHARE
          /\ 2 * OWNER_SHARE = TOTAL_SUPPLY
          /\ tk.unlockTimestamp = domainInfo[domain].expirationTimestamp
          /\ r.st.fractionalizationInfo[domain] =
               [tokenContract |-> TokenAddress(domain), domainOwner |-> sender,
                unlockTimestamp |-> domainInfo[domain].expirationTimestamp,
                isEnabled |-> TRUE, publicTokenPrice |-> price]

\* C14: for an enabled domain whose owner holds the locked half, a purchase
\* of 0 < amount <= the unsold rest of the public half, paid in full, succeeds
\* and adds exactly amount to the buyer's share balance; in particular a
\* purchase of 10^9 tokens (one unit) right after the owner enabled the domain.
C14_PurchaseSucceeds ==
  \A owner \in Users, buyer \in Users, domain \in Keys, amount \in 1..PUBLIC_SHARE :
    /\ (/\ fractionalizationInfo[domain].isEnabled
        /\ balanceOf(S, domain, fractionalizationInfo[domain].domainOwner) = OWNER_SHARE
        /\ amount <= PUBLIC_SHARE - (tokens[domain].totalSupply - OWNER_SHARE))
       => LET price == PurchasePrice(fractionalizationInfo[domain].publicTokenPrice, amount)
              r == purchasePublicTokens(S, buyer, domain, amount, price)
          IN /\ r.ok
             /\ balanceOf(r.st, domain, buyer) = balanceOf(S, domain, buyer) + amount
    /\ (/\ domainInfo[domain].owner = owner
        /\ domainInfo[domain].expirationTimestamp > now
        /\ ~fractionalizationInfo[domain].isEnabled)
       => LET e == enableFractionalization(S, owner, domain, 1)
              r == purchasePublicTokens(e.st, buyer, domain, 1, PurchasePrice(1, 1))
          IN /\ r.ok
             /\ balanceOf(r.st, domain, buyer) = balanceOf(e.st, domain, buyer) + 1

\* C17: unlockOwnerTokens succeeds for any caller when the domain is enabled
\* and its registry expiration is past the record's unlock timestamp, clears
\* the owner's lock and stores the new expiration as the unlock timestamp; it
\* fails while the expiration has not moved past the unlock timestamp.  In
\* particular it succeeds after the owner enabled the domain and renewed it.
C17_UnlockAfterRenewal ==
  \A caller \in Users, name \in {<<97>>}, tld \in TldChoices :
    LET domain == Packed(name, tld)
        info == fractionalizationInfo[domain]
        owner == domainInfo[domain].owner
        e == enableFractionalization(S, owner, domain, 1)
        n == renewDomain(e.st, owner, name, tld, 1, 220)
        u == unlockOwnerTokens(n.st, caller, domain)
        r == unlockOwnerTokens(S, caller, domain)
    IN /\ (info.isEnabled /\ domainInfo[domain].expirationTimestamp > info.unlockTimestamp)
          => /\ r.ok
             /\ r.st.tokens[domain].ownerTokensUnlocked
             /\ r.st.fractionalizationInfo[domain].unlockTimestamp =
                  domainInfo[domain].expirationTimestamp
       /\ (info.isEnabled /\ domainInfo[domain].expirationTimestamp <= info.unlockTimestamp)
          => ~r.ok
       /\ (/\ owner \in Users
           /\ domainInfo[domain].expirationTimestamp > now
           /\ ~info.isEnabled
           /\ n.ok)
          => /\ u.ok
             /\ u.st.tokens[domain].ownerTokensUnlocked
             /\ u.st.fractionalizationInfo[domain].unlockTimestamp =
                  n.st.domainInfo[domain].expirationTimestamp

\* The treasury's calculateFee call for this domain fails: the call itself
\* fails or returns no data.
CalculateFeeFails(domain) ==
  /\ treasury # ZERO
  /\ LET r == staticcallCalculateFee(S, domain, 100) IN ~r.success \/ ~r.hasData

\* C20: with a treasury configured, when the treasury's calculateFee or
\* depositFee call fails for a domain, every registration and renewal path
\* (registerDomain, renewDomain, the USDC variants, batchRegisterDomains,
\* batchRenewDomains) fails as a whole for that domain, changing nothing.
C20_TreasuryFailureIsAtomic ==
  \A sender \in Users, domain \in {<<97>>, <<98>>}, tld \in TldChoices,
     numYears \in {1, 2}, value \in PaymentInputs :
    LET full == Dom(domain, tld)
        items == <<[domain |-> domain, tld |-> tld, numYears |-> numYears]>>
    IN /\ CalculateFeeFails(full)
          => /\ ~registerDomain(S, sender, domain, tld, numYears, value).ok
             /\ ~renewDomain(S, sender, domain, tld, numYears, value).ok
             /\ \A feed \in FeedAnswers, pays \in BOOLEAN :
                  /\ ~registerDomainWithUSDC(S, sender, domain, tld, numYears, value, feed, pays).ok
                  /\ ~renewDomainWithUSDC(S, sender, domain, tld, numYears, value, feed, pays).ok
             /\ ~batchRegisterDomains(S, sender, items, value).ok
             /\ ~batchRenewDomains(S, sender, items, value).ok
       /\ \A fee \in 1..value :
            (treasury # ZERO /\ ~callDepositFee(S, full, fee).ok)
            => /\ ~registerDomain(S, sender, domain, tld, numYears, value).ok
               /\ ~renewDomain(S, sender, domain, tld, numYears, value).ok
               /\ ~batchRegisterDomains(S, sender, items, value).ok
               /\ ~batchRenewDomains(S, sender, items, value).ok

\* The fee the treasury asks for a payment to a domain: the domain's own
\* percentage, or the default one when none is set, in basis points.
FeeOn(domain, payment) ==
  IF treasury = ZERO THEN 0
  ELSE (payment * (IF domainFeePercentages[domain] = 0 THEN defaultFeePercentage
                   ELSE domainFeePercentages[domain])) \div 10000

\* C21: an otherwise valid registerDomain or renewDomain whose payment is
\* below the price fails with the insufficient-payment error; one whose
\* payment covers the price but not price plus fee fails with the distinct
\* insufficient-payment-after-fee error; either way no record, index or
\* balance changes (the payment is not kept).
C21_TwoInsufficientPaymentErrors ==
  \A sender \in Users, n \in NameInputs, t \in TldInputs, y \in ValidYears, v \in PaymentInputs :
    LET d == Dom(n, t)
        p == getDomainPrice(S, _normalizeDomain(t), y)
        g == registerDomain(S, sender, n, t, y, v)
        w == renewDomain(S, sender, n, t, y, v)
        registrable == /\ _validateDomainName(_normalizeDomain(n))
                       /\ _validateDomainName(_normalizeDomain(t))
                       /\ isDomainAvailable(S, d)
        renewable == domainInfo[d].owner = sender /\ now < domainInfo[d].expirationTimestamp
    IN (p.ok /\ treasury \in {ZERO, TREASURY}) =>
         /\ (registrable /\ v < p.price)
            => ~g.ok /\ g.err = "InsufficientPayment" /\ g.st = S
         /\ (registrable /\ v >= p.price /\ v - FeeOn(d, v) < p.price)
            => ~g.ok /\ g.err = "InsufficientPaymentAfterFee" /\ g.st = S
         /\ (renewable /\ v < p.price)
            => ~w.ok /\ w.err = "InsufficientPayment" /\ w.st = S
         /\ (renewable /\ v >= p.price /\ v - FeeOn(d, v) < p.price)
            => ~w.ok /\ w.err = "InsufficientPaymentAfterFee" /\ w.st = S

\* Alice owns a.c with a 10% fee set; her renewal for two years with 199
\* is short of the price, with 220 it covers the price of 200 but not the
\* fee of 22, and Bob's registration of b.c with exactly the price of 100
\* does not cover the default fee of 1.
C21_Witness ==
  /\ treasury = TREASURY
  /\ tldPrices[<<99>>] = 100
  /\ domainInfo[<<97, 46, 99>>].owner = ALICE
  /\ now < domainInfo[<<97, 46, 99>>].expirationTimestamp
  /\ domainFeePercentages[<<97, 46, 99>>] = 1000
  /\ renewDomain(S, ALICE, <<97>>, <<99>>, 2, 199).err = "InsufficientPayment"
  /\ renewDomain(S, ALICE, <<97>>, <<99>>, 2, 220).err = "InsufficientPaymentAfterFee"
  /\ registerDomain(S, BOB, <<98>>, <<99>>, 1, 0).err = "InsufficientPayment"
  /\ registerDomain(S, BOB, <<98>>, <<99>>, 1, 100).err = "InsufficientPaymentAfterFee"

\* C22: renewDomain, renewDomainWithUSDC and batchRenewDomains fail for every
\* caller who is not the domain's recorded owner, and fail with
\* DomainHasExpired for the recorded owner once now has reached the
\* expiration; the failed call changes no record, index or balance.
C22_RenewOnlyOwnerBeforeExpiry ==
  \A sender \in Users, n \in NameInputs, t \in TldInputs, y \in YearInputs, v \in PaymentInputs :
    LET d == Dom(n, t)
        r == renewDomain(S, sender, n, t, y, v)
        b == batchRenewDomains(S, sender, <<[domain |-> n, tld |-> t, numYears |-> y]>>, v)
    IN /\ domainInfo[d].owner # sender
          => /\ ~r.ok /\ r.st = S
             /\ ~b.ok /\ b.st = S
             /\ \A feed \in FeedAnswers, pays \in BOOLEAN :
                  LET u == renewDomainWithUSDC(S, sender, n, t, y, v, feed, pays)
                  IN ~u.ok /\ u.st = S
       /\ (domainInfo[d].owner = sender /\ now >= domainInfo[d].expirationTimestamp
           /\ y \in ValidYears)
          => /\ ~r.ok /\ r.err = "DomainHasExpired" /\ r.st = S
             /\ ~b.ok /\ b.err = "DomainHasExpired" /\ b.st = S
             /\ \A feed \in FeedAnswers, pays \in BOOLEAN :
                  LET u == renewDomainWithUSDC(S, sender, n, t, y, v, feed, pays)
                  IN /\ ~u.ok /\ u.st = S
                     /\ usdcToken # ZERO => u.err = "DomainHasExpired"

\* Alice's a.c has lapsed with everything else in place for a renewal: her
\* renewals are refused as expired, Bob's as not the owner's.
C22_Witness ==
  /\ domainInfo[<<97, 46, 99>>].owner = ALICE
  /\ now >= domainInfo[<<97, 46, 99>>].expirationTimestamp
  /\ tldPrices[<<99>>] = 100
  /\ usdcToken = USDC
  /\ fallbackETHPrice = 2000
  /\ renewDomain(S, ALICE, <<97>>, <<99>>, 1, 220).err = "DomainHasExpired"
  /\ renewDomain(S, BOB, <<97>>, <<99>>, 1, 220).err = "NotDomainOwner"
  /\ batchRenewDomains(S, ALICE, <<[domain |-> <<97>>, tld |-> <<99>>, numYears |-> 1]>>, 220).err
       = "DomainHasExpired"
  /\ \A feed \in FeedAnswers :
       renewDomainWithUSDC(S, ALICE, <<65>>, <<99>>, 1, 220, feed, TRUE).err = "DomainHasExpired"

\* C23: registerDomainWithUSDC of an available, validly named domain, with
\* the treasury configured, a price available, the token's transfers going
\* through and usdcAmount at least the converted price, succeeds: the fee on
\* the converted price is credited to the domain's treasury balance and the
\* record is the one registerDomain creates.
C23_RegisterWithUSDCSucceeds ==
  \A sender \in Users, n \in NameInputs, t \in TldInputs, y \in ValidYears,
     feed \in FeedAnswers, more \in {0, 1} :
    LET d == Dom(n, t)
        p == getDomainPrice(S, _normalizeDomain(t), y)
        c == convertETHToUSDC(S, feed, p.price)
        r == registerDomainWithUSDC(S, sender, n, t, y, c.amount + more, feed, TRUE)
    IN (/\ usdcToken # ZERO
        /\ treasury = TREASURY
        /\ _validateDomainName(_normalizeDomain(n))
        /\ _validateDomainName(_normalizeDomain(t))
        /\ isDomainAvailable(S, d)
        /\ p.ok
        /\ c.ok)
       => /\ r.ok
          /\ r.fee = FeeOn(d, c.amount)
          /\ r.st.treasuryBalances[d] = treasuryBalances[d] + FeeOn(d, c.amount)
          /\ r.st.domainInfo[d] =
               [owner |-> sender, registrationTimestamp |-> now,
                expirationTimestamp |-> now + y * YearLen,
                yearsPurchased |-> y, tld |-> _normalizeDomain(t)]

\* The answers latestRoundData can give: a revert, or a price (negative,
\* zero, below, at and above the floor) updated never, two hours or one hour
\* ago, now, or in the future.
FeedInputs ==
  {[reverts |-> TRUE, priceInt |-> 0, updatedAt |-> 0]} \cup
  {[reverts |-> FALSE, priceInt |-> p, updatedAt |-> u] :
     p \in {-1, 0, 499, 500, 2000, 3000},
     u \in {x \in {0, now - 2, now - 1, now, now + 1} : x >= 0}}

\* The answer passes the validation of the feed: positive, updated within
\* the last hour, at or above the floor.
ValidAnswer(feed) ==
  /\ ~feed.reverts
  /\ feed.priceInt > 0
  /\ feed.updatedAt > 0
  /\ feed.updatedAt <= now
  /\ now - feed.updatedAt <= STALE_AFTER
  /\ feed.priceInt >= MIN_ETH_PRICE

\* C24: every price getLatestETHPrice returns, from the feed or from the
\* fallback, is at or above MIN_ETH_PRICE; an answer of the feed that is not
\* positive, is older than an hour or is below the floor is never the price
\* returned (what is returned then is the fallback price with its timestamp).
C24_RateAtOrAboveFloor ==
  \A feed \in FeedInputs :
    LET r == getLatestETHPrice(S, feed)
    IN r.ok =>
         /\ r.price >= MIN_ETH_PRICE
         /\ ~(ethUsdPriceFeed # ZERO /\ ValidAnswer(feed))
            => r.price = fallbackETHPrice /\ r.timestamp = fallbackPriceTimestamp

\* With the feed and a fallback of $2000 configured, a stale answer of $3000,
\* an answer of $499 and an answer of -1 all give the fallback price.
C24_Witness ==
  /\ ethUsdPriceFeed = FEED
  /\ fallbackETHPrice = 2000
  /\ now >= 2
  /\ getLatestETHPrice(S, [reverts |-> FALSE, priceInt |-> 3000, updatedAt |-> now - 2]).price = 2000
  /\ getLatestETHPrice(S, [reverts |-> FALSE, priceInt |-> 499, updatedAt |-> now]).price = 2000
  /\ getLatestETHPrice(S, [reverts |-> FALSE, priceInt |-> -1, updatedAt |-> now]).price = 2000
  /\ getLatestETHPrice(S, [reverts |-> FALSE, priceInt |-> 3000, updatedAt |-> now - 1]).price = 3000

\* C25: getLatestETHPrice returns the answer of the feed whenever the feed is
\* set and its answer is valid, whatever the fallback; otherwise it returns
\* the fallback price if one is set and fails if none is; it never returns
\* zero.  registerDomainWithUSDC and renewDomainWithUSDC called while no
\* price is available fail and change nothing.
C25_FallbackOnlyWhenFeedFails ==
  \A feed \in FeedInputs :
    LET r == getLatestETHPrice(S, feed)
        valid == ethUsdPriceFeed # ZERO /\ ValidAnswer(feed)
    IN /\ valid => r.ok /\ r.price = feed.priceInt /\ r.timestamp = feed.updatedAt
       /\ (~valid /\ fallbackETHPrice > 0)
          => r.ok /\ r.price = fallbackETHPrice /\ r.timestamp = fallbackPriceTimestamp
       /\ (~valid /\ fallbackETHPrice = 0) => ~r.ok
       /\ r.ok => r.price > 0
       /\ ~r.ok =>
            \A sender \in Users, n \in NameInputs, t \in TldInputs, y \in YearInputs,
               a \in UsdcAmounts, pays \in BOOLEAN :
              LET g == registerDomainWithUSDC(S, sender, n, t, y, a, feed, pays)
                  w == renewDomainWithUSDC(S, sender, n, t, y, a, feed, pays)
              IN ~g.ok /\ g.st = S /\ ~w.ok /\ w.st = S

\* The feed and the USDC token are configured, no fallback is: a fresh
\* answer of $3000 is the price, while with a reverting feed a registration
\* otherwise in order fails for want of a price.
C25_Witness ==
  /\ ethUsdPriceFeed = FEED
  /\ usdcToken # ZERO
  /\ fallbackETHPrice = 0
  /\ tldPrices[<<99>>] > 0
  /\ getLatestETHPrice(S, [reverts |-> FALSE, priceInt |-> 3000, updatedAt |-> now]).price = 3000
  /\ registerDomainWithUSDC(S, ALICE, <<97>>, <<99>>, 1, 1000000,
                            [reverts |-> TRUE, priceInt |-> 0, updatedAt |-> 0], TRUE).err
       = "PriceFeedNotSet"

\* Two spellings of one name or suffix: equal once normalized.
SameSpelling(x, y) == _normalizeDomain(x) = _normalizeDomain(y)

\* C26: two differently-cased spellings of the same name and suffix resolve
\* to the same record and the same suffix price in every operation taking a
\* name or a suffix: registerDomain, renewDomain, transferDomain and
\* isDomainAvailable, setTLDPrice and getDomainPrice, and the treasury's
\* autoRenewDomain and canAutoRenew give the same result for both spellings.
C26_SpellingsResolveAlike ==
  \A n1 \in NameInputs, n2 \in NameInputs, t1 \in TldInputs, t2 \in TldInputs :
    (SameSpelling(n1, n2) /\ SameSpelling(t1, t2)) =>
      \A sender \in Users, y \in YearInputs :
        /\ \A value \in {100, 220} :
             /\ registerDomain(S, sender, n1, t1, y, value)
                  = registerDomain(S, sender, n2, t2, y, value)
             /\ renewDomain(S, sender, n1, t1, y, value)
                  = renewDomain(S, sender, n2, t2, y, value)
        /\ \A newOwner \in Users :
             transferDomain(S, sender, Packed(n1, t1), newOwner)
               = transferDomain(S, sender, Packed(n2, t2), newOwner)
        /\ isDomainAvailable(S, Packed(n1, t1)) = isDomainAvailable(S, Packed(n2, t2))
        /\ getDomainPrice(S, t1, y) = getDomainPrice(S, t2, y)
        /\ \A price \in PriceChoices :
             setTLDPrice(S, ADMIN, t1, price) = setTLDPrice(S, ADMIN, t2, price)
        /\ canAutoRenew(S, n1, t1, y) = canAutoRenew(S, n2, t2, y)
        /\ autoRenewDomain(S, sender, n1, t1, y) = autoRenewDomain(S, sender, n2, t2, y)

\* The batches the batch claims are evaluated on: one or two items over a
\* registrable name, its capital spelling, a second name and an ill-formed
\* one, with year counts below, in and above the range.
BatchItemInputs ==
  {[domain |-> n, tld |-> <<99>>, numYears |-> y] :
     n \in {<<97>>, <<65>>, <<98>>, <<45>>}, y \in {0, 1, 11}}

BatchInputs == {<<x>> : x \in BatchItemInputs} \cup {<<x, y>> : x, y \in BatchItemInputs}

\* The item fails the validation registerDomain applies.
RegisterItemInvalid(s, it) ==
  \/ ~_normalizeOk(it.domain) \/ ~_normalizeOk(it.tld)
  \/ ~_validateDomainName(_normalizeDomain(it.domain))
  \/ ~_validateDomainName(_normalizeDomain(it.tld))
  \/ it.numYears = 0 \/ it.numYears > 10
  \/ ~isDomainAvailable(s, FullOf(it))
  \/ s.tldPrices[_normalizeDomain(it.tld)] = 0

\* The item fails the validation renewDomain applies.
RenewItemInvalid(s, sender, it) ==
  \/ ~_normalizeOk(it.domain) \/ ~_normalizeOk(it.tld)
  \/ it.numYears = 0 \/ it.numYears > 10
  \/ s.domainInfo[FullOf(it)].owner # sender
  \/ s.now >= s.domainInfo[FullOf(it)].expirationTimestamp
  \/ s.tldPrices[_normalizeDomain(it.tld)] = 0
  \/ s.domainInfo[FullOf(it)].yearsPurchased + it.numYears > MAX_YEARS_PURCHASED

\* Prices plus fees of the items of a batch all of whose items are valid
RECURSIVE BatchDue(_, _, _)
BatchDue(s, items, i) ==
  IF i > Len(items) THEN 0
  ELSE s.tldPrices[_normalizeDomain(items[i].tld)] * items[i].numYears
         + BatchItemFee(s, items[i]) + BatchDue(s, items, i + 1)

\* The state after k further ten-year renewals by the sender, each amply
\* paid; a renewal that fails leaves the state as it is.
RECURSIVE RenewedTimes(_, _, _, _, _)
RenewedTimes(s, sender, domain, tld, k) ==
  IF k = 0 THEN s
  ELSE RenewedTimes(renewDomain(s, sender, domain, tld, 10, 10100).st, sender, domain, tld, k - 1)

\* A batch call that has to fail fails and leaves the state as it was.
BatchRegisterAtomic(s, sender, items, value) ==
  ((\E i \in 1..Len(items) : RegisterItemInvalid(s, items[i])) \/ value < BatchDue(s, items, 1))
  => LET r == batchRegisterDomains(s, sender, items, value) IN ~r.ok /\ r.st = s

BatchRenewAtomic(s, sender, items, value) ==
  ((\E i \in 1..Len(items) : RenewItemInvalid(s, sender, items[i])) \/ value < BatchDue(s, items, 1))
  => LET r == batchRenewDomains(s, sender, items, value) IN ~r.ok /\ r.st = s

\* C27: batchRegisterDomains and batchRenewDomains are all-or-nothing: when
\* an item of the batch fails its validation (format of name or suffix, range
\* of years, availability or ownership, expiry, suffix price, the cap on the
\* years purchased) or the payment is below the sum of prices and fees, the
\* call fails and no record, owner index or treasury balance changes.  The
\* renewals are checked as well in the state ten ten-year renewals later,
\* where the cap on the years purchased is in reach.
C27_BatchesAreAllOrNothing ==
  \A sender \in Users, value \in {100, 201, 220} :
    /\ \A items \in BatchInputs :
         /\ BatchRegisterAtomic(S, sender, items, value)
         /\ BatchRenewAtomic(S, sender, items, value)
    /\ \A it \in BatchItemInputs :
         BatchRenewAtomic(RenewedTimes(S, sender, <<97>>, <<99>>, 10), sender,
                          <<[it EXCEPT !.numYears = 10]>>, 10 * value)

\* ALICE holds a.c unexpired, the price of c is set and fees go to the
\* treasury: a registration batch with a.c in it, one with an ill-formed
\* name, a renewal batch with a name ALICE does not hold and an underpaid
\* one all fail, and after ten more renewals so does a renewal over the cap.
C27_Witness ==
  LET a == [domain |-> <<97>>, tld |-> <<99>>, numYears |-> 1]
      b == [domain |-> <<98>>, tld |-> <<99>>, numYears |-> 1]
      bad == [domain |-> <<45>>, tld |-> <<99>>, numYears |-> 1]
      T == RenewedTimes(S, ALICE, <<97>>, <<99>>, 10)
  IN /\ domainInfo[<<97, 46, 99>>].owner = ALICE
     /\ now < domainInfo[<<97, 46, 99>>].expirationTimestamp
     /\ treasury = TREASURY
     /\ batchRegisterDomains(S, BOB, <<b, a>>, 220).err = "DomainNotAvailable"
     /\ batchRegisterDomains(S, BOB, <<b, bad>>, 220).err = "InvalidDomainFormat"
     /\ batchRegisterDomains(S, BOB, <<b>>, 10100).ok
     /\ batchRenewDomains(S, ALICE, <<a, b>>, 220).err = "NotDomainOwner"
     /\ batchRenewDomains(S, ALICE, <<a, a>>, 201).err = "InsufficientPayment"
     /\ batchRenewDomains(S, ALICE, <<a, a>>, 220).ok
     /\ T.domainInfo[<<97, 46, 99>>].yearsPurchased > 90
     /\ batchRenewDomains(T, ALICE, <<[a EXCEPT !.numYears = 10]>>, 10100).err = "YearsExceedMaximum"
     /\ batchRenewDomains(T, ALICE, <<[a EXCEPT !.numYears = 10]>>, 10100).st = T

\* n copies of x
Rep(x, n) == [i \in 1..n |-> x]

\* The array lengths the batch functions are called with: none to eleven
\* names, and as many suffixes and year counts or one more.
BatchLengths == 0..11

\* Both batch functions on n names, m suffixes and k year counts, amply paid
BatchRegisterOf(sender, x, n, m, k) ==
  batchRegisterDomainsArrays(S, sender, Rep(x, n), Rep(<<99>>, m), Rep(1, k), 10100)

BatchRenewOf(sender, x, n, m, k) ==
  batchRenewDomainsArrays(S, sender, Rep(x, n), Rep(<<99>>, m), Rep(1, k), 10100)

\* C28 as claimed: batchRegisterDomains and batchRenewDomains accept only
\* batches of 2 to 10 items with arrays of equal length; a batch of 0, of 1
\* or of more than 10 items is rejected without any change of state.
C28_BatchOfTwoToTen ==
  \A sender \in Users, x \in {<<97>>, <<98>>}, n \in BatchLengths :
    \A m \in {n, n + 1}, k \in {n, n + 1} :
      LET g == BatchRegisterOf(sender, x, n, m, k)
          w == BatchRenewOf(sender, x, n, m, k)
      IN /\ g.ok => n = m /\ n = k /\ n >= 2 /\ n <= 10
         /\ w.ok => n = m /\ n = k /\ n >= 2 /\ n <= 10
         /\ ~g.ok => g.st = S
         /\ ~w.ok => w.st = S

\* C28: batchRegisterDomains and batchRenewDomains accept only batches of 1
\* to 10 items with arrays of equal length: a batch of 0 or of more than 10
\* items, or one whose arrays differ in length, is rejected without any
\* change of state, while a batch of 1 to 10 valid items, amply paid, is
\* accepted, a single item included.
C28_BatchOfOneToTen ==
  \A sender \in Users, x \in {<<97>>, <<98>>}, n \in BatchLengths :
    \A m \in {n, n + 1}, k \in {n, n + 1} :
      LET it == [domain |-> x, tld |-> <<99>>, numYears |-> 1]
          g == BatchRegisterOf(sender, x, n, m, k)
          w == BatchRenewOf(sender, x, n, m, k)
          sized == n = m /\ n = k /\ n >= 1 /\ n <= 10
      IN /\ g.ok => sized
         /\ w.ok => sized
         /\ ~g.ok => g.st = S
         /\ ~w.ok => w.st = S
         /\ (sized /\ ~RegisterItemInvalid(S, it)) => g.ok
         /\ (sized /\ ~RenewItemInvalid(S, sender, it)) => w.ok

\* The price is set, fees go to the treasury and ALICE holds a.c unexpired:
\* batches of one and of ten items are accepted, batches of none and of
\* eleven and one with a suffix too many are rejected.
C28_Witness ==
  /\ treasury = TREASURY
  /\ domainInfo[<<97, 46, 99>>].owner = ALICE
  /\ BatchRegisterOf(BOB, <<98>>, 1, 1, 1).ok
  /\ BatchRegisterOf(BOB, <<98>>, 10, 10, 10).ok
  /\ BatchRenewOf(ALICE, <<97>>, 1, 1, 1).ok
  /\ BatchRenewOf(ALICE, <<97>>, 10, 10, 10).ok
  /\ BatchRegisterOf(BOB, <<98>>, 0, 0, 0).err = "InvalidBatchSize"
  /\ BatchRegisterOf(BOB, <<98>>, 11, 11, 11).err = "InvalidBatchSize"
  /\ BatchRenewOf(ALICE, <<97>>, 11, 11, 11).err = "InvalidBatchSize"
  /\ BatchRenewOf(ALICE, <<97>>, 2, 3, 2).err = "ArrayLengthMismatch"

\* C29: transferDomain succeeds exactly when the caller is the recorded
\* owner of the domain, newOwner is neither the null address nor the caller,
\* and now < expiration.  On success the owner of the record becomes newOwner,
\* the other fields of the record and all other records are as before, and
\* the domain moves from the caller's array of ownerDomains to newOwner's;
\* in every other case the call fails and no state changes.
C29_TransferOnlyByOwnerBeforeExpiry ==
  \A sender \in EOAs, domain \in FullInputs, newOwner \in EOAs \cup {ZERO} :
    LET d == _normalizeDomain(domain)
        info == domainInfo[d]
        r == transferDomain(S, sender, domain, newOwner)
        allowed == /\ info.owner = sender
                   /\ newOwner # ZERO
                   /\ newOwner # sender
                   /\ now < info.expirationTimestamp
    IN /\ r.ok <=> allowed
       /\ r.ok =>
            /\ r.st.domainInfo = [domainInfo EXCEPT ![d].owner = newOwner]
            /\ r.st.domainInfo[d].expirationTimestamp = info.expirationTimestamp
            /\ r.st.domainInfo[d].registrationTimestamp = info.registrationTimestamp
            /\ r.st.domainInfo[d].yearsPurchased = info.yearsPurchased
            /\ Count(r.st.ownerDomains[sender], d) = 0
            /\ Count(r.st.ownerDomains[newOwner], d) = 1
            /\ r.st.treasuryBalances = treasuryBalances
            /\ r.st.eth = eth
            /\ r.st.tldPrices = tldPrices
       /\ ~r.ok => r.st = S

\* ALICE registered a.c on an earlier day and has just transferred it to
\* BOB: the record keeps its timestamps, and from here ALICE's transfer, a
\* transfer by BOB to himself and one to the null address fail.
C29_Witness ==
  /\ last.op = "transferDomain"
  /\ last.sender = ALICE
  /\ last.domain = <<97, 46, 99>>
  /\ domainInfo[<<97, 46, 99>>].owner = BOB
  /\ domainInfo[<<97, 46, 99>>].registrationTimestamp < now
  /\ now < domainInfo[<<97, 46, 99>>].expirationTimestamp
  /\ transferDomain(S, ALICE, <<97, 46, 99>>, BOB).err = "NotDomainOwner"
  /\ transferDomain(S, BOB, <<65, 46, 99>>, BOB).err = "CannotTransferToSelf"
  /\ transferDomain(S, BOB, <<97, 46, 99>>, ZERO).err = "InvalidNewOwner"
  /\ transferDomain(S, BOB, <<65, 46, 67>>, ALICE).ok

\* The amounts withdrawExcess is evaluated on
WithdrawInputs == {0, 1, 2, 3, 101}

\* C30: withdrawExcess succeeds only for the recorded owner of the domain
\* with 0 < amount <= the domain's treasury balance.  On success that balance
\* is lower by exactly amount, no other balance changes and amount leaves the
\* treasury for the caller.  The balance is decremented before the transfer:
\* the receiver reads the lowered balance during the call and its re-entering
\* call fails.  A call that is rejected, or whose transfer fails, leaves all
\* treasury balances, and the rest of the state, unchanged.
C30_WithdrawExcessIsSafe ==
  \A sender \in Users, domain \in Keys, amount \in WithdrawInputs, receiver \in ReceiverKinds :
    LET r == withdrawExcess(S, sender, domain, amount, receiver)
        entitled == /\ domainInfo[domain].owner = sender
                    /\ 0 < amount
                    /\ amount <= treasuryBalances[domain]
        c == withdrawExcessCall(withdrawExcessDebit(S, domain, amount),
                                sender, domain, amount, receiver)
    IN /\ r.ok => entitled
       /\ r.ok =>
            /\ r.st.treasuryBalances =
                 [treasuryBalances EXCEPT ![domain] = treasuryBalances[domain] - amount]
            /\ r.refund = amount
            /\ r.st.eth[TREASURY] = eth[TREASURY] - amount
            /\ r.st.domainInfo = domainInfo
       /\ (entitled /\ receiver = "accepts") =>
            /\ r.ok
            /\ c.seen = treasuryBalances[domain] - amount
       /\ (entitled /\ receiver = "reenters") =>
            /\ c.seen = treasuryBalances[domain] - amount
            /\ ~c.reentered.ok
            /\ r.st.treasuryBalances[domain] = treasuryBalances[domain] - amount
       /\ (entitled /\ receiver = "rejects") => ~r.ok
       /\ ~r.ok => r.st = S

\* ALICE has just withdrawn 2 for a.c, which she holds; more fees have
\* accrued since or are left, so that a further withdrawal succeeds, one
\* refused by the receiver fails, and so do BOB's and one over the balance.
C30_Witness ==
  /\ last.op = "withdrawExcess"
  /\ last.sender = ALICE
  /\ last.domain = <<97, 46, 99>>
  /\ domainInfo[<<97, 46, 99>>].owner = ALICE
  /\ treasuryBalances[<<97, 46, 99>>] >= 2
  /\ withdrawExcess(S, ALICE, <<97, 46, 99>>, 2, "accepts").ok
  /\ withdrawExcess(S, ALICE, <<97, 46, 99>>, 2, "reenters").ok
  /\ withdrawExcess(S, ALICE, <<97, 46, 99>>, 2, "rejects").err = "TransferFailed"
  /\ withdrawExcess(S, BOB, <<97, 46, 99>>, 2, "accepts").err = "NotDomainOwner"
  /\ withdrawExcess(S, ALICE, <<97, 46, 99>>, 101, "accepts").err = "InsufficientBalance"
  /\ withdrawExcess(S, ALICE, <<97, 46, 99>>, 0, "accepts").err = "AmountZero"

\* One more renewal of a.c for y years: by the sender through renewDomain
\* or, where that fails, by the treasury address through
\* renewDomainFromTreasury; the state is as it was where both fail.
RenewedOnce(s, sender, y) ==
  LET r == renewDomain(s, sender, <<97>>, <<99>>, y, 10100)
  IN IF r.ok THEN r.st
     ELSE renewDomainFromTreasury(s, s.treasury, <<97>>, <<99>>, y, 0).st

RECURSIVE RenewedOften(_, _, _)
RenewedOften(s, sender, k) ==
  IF k = 0 THEN s ELSE RenewedOften(RenewedOnce(s, sender, 10), sender, k - 1)

\* The states in which the years counter of a.c is near its limit: the
\* state after nine further ten-year renewals, and the state after a renewal
\* of nine more years from there.
NearCap(sender) ==
  {RenewedOften(S, sender, 9), RenewedOnce(RenewedOften(S, sender, 9), sender, 9)}

\* The results of the four renewals of a.c for y years in state T: by the
\* sender in ether, in USDC and in a batch, and by the treasury address.
RenewalsOf(T, sender, y) ==
  {renewDomain(T, sender, <<97>>, <<99>>, y, 10100),
   batchRenewDomains(T, sender, <<[domain |-> <<97>>, tld |-> <<99>>, numYears |-> y]>>, 10100),
   renewDomainFromTreasury(T, T.treasury, <<97>>, <<99>>, y, 0)}
  \cup {renewDomainWithUSDC(T, sender, <<97>>, <<99>>, y, 10000000, feed, TRUE) :
          feed \in FeedAnswers}

\* C31: the years counter of every record is at most 100, in every state
\* reached and in the states near the limit that further renewals lead to;
\* a renewal (renewDomain, renewDomainWithUSDC, batchRenewDomains,
\* renewDomainFromTreasury) that would raise the counter above 100 fails and
\* leaves the expiration, and the rest of the state, as it was.
C31_YearsCounterAtMostHundred ==
  /\ \A k \in Keys : domainInfo[k].yearsPurchased <= MAX_YEARS_PURCHASED
  /\ \A sender \in Users :
       \A T \in {S} \cup NearCap(sender) :
         /\ \A k \in Keys : T.domainInfo[k].yearsPurchased <= MAX_YEARS_PURCHASED
         /\ \A y \in {1, 9, 10} :
              \A r \in RenewalsOf(T, sender, y) :
                /\ r.ok => \A k \in Keys :
                             r.st.domainInfo[k].yearsPurchased <= MAX_YEARS_PURCHASED
                /\ T.domainInfo[<<97, 46, 99>>].yearsPurchased + y > MAX_YEARS_PURCHASED
                   => /\ ~r.ok
                      /\ r.st.domainInfo[<<97, 46, 99>>].expirationTimestamp
                           = T.domainInfo[<<97, 46, 99>>].expirationTimestamp
                      /\ r.st = T

\* ALICE holds a.c unexpired and BOB is the treasury address: nine ten-year
\* renewals on, at 91 years, a renewal of ten years in a batch or by the
\* treasury address fails on the counter, while nine years go through and
\* bring it to 100, where one more year fails.
C31_Witness ==
  LET T == RenewedOften(S, ALICE, 9)
      U == RenewedOnce(T, ALICE, 9)
      a == <<97>>
      c == <<99>>
  IN /\ domainInfo[<<97, 46, 99>>].owner = ALICE
     /\ domainInfo[<<97, 46, 99>>].yearsPurchased = 1
     /\ treasury = BOB
     /\ T.domainInfo[<<97, 46, 99>>].yearsPurchased = 91
     /\ batchRenewDomains(T, ALICE, <<[domain |-> a, tld |-> c, numYears |-> 10]>>, 10100).err
          = "YearsExceedMaximum"
     /\ renewDomainFromTreasury(T, BOB, a, c, 10, 0).err = "YearsExceedMaximum"
     /\ U.domainInfo[<<97, 46, 99>>].yearsPurchased = 100
     /\ renewDomainFromTreasury(U, BOB, a, c, 1, 0).err = "YearsExceedMaximum"
     /\ renewDomainFromTreasury(U, BOB, a, c, 1, 0).st = U

\* enableFractionalization is refused by one of its four checks, in the
\* order of the code, and changes nothing.
EnableRefused ==
  \A sender \in Users, domain \in Keys, price \in {0, 1, 2} :
    LET r == enableFractionalization(S, sender, domain, price)
        info == domainInfo[domain]
    IN /\ info.owner # sender => r.err = "NotDomainOwner"
       /\ (info.owner = sender /\ fractionalizationInfo[domain].isEnabled)
          => r.err = "AlreadyFractionalized"
       /\ (info.owner = sender /\ ~fractionalizationInfo[domain].isEnabled /\ price = 0)
          => r.err = "InvalidTokenPrice"
       /\ (info.owner = sender /\ ~fractionalizationInfo[domain].isEnabled /\ price > 0
             /\ info.expirationTimestamp <= now)
          => r.err = "DomainExpired"
       /\ (\/ info.owner # sender
           \/ info.expirationTimestamp <= now
           \/ price = 0
           \/ fractionalizationInfo[domain].isEnabled)
          => ~r.ok /\ r.st = S

\* An enabled domain stays enabled with the token it has.
EnabledForGood ==
  \A domain \in Keys :
    fractionalizationInfo[domain].isEnabled =>
      /\ fractionalizationInfo'[domain].isEnabled
      /\ fractionalizationInfo'[domain].tokenContract = fractionalizationInfo[domain].tokenContract
      /\ domainTokens'[domain] = domainTokens[domain]

C34_StateFinalAtExternalCall ==
  /\ \A sender \in Users, n \in NameInputs, t \in TldInputs, y \in ValidYears,
        v \in PaymentInputs :
       LET d == Dom(n, t)
           g == registerDomain(S, sender, n, t, y, v)
           w == renewDomain(S, sender, n, t, y, v)
           atRefund == RefundCallState(S, sender, d, v)
       IN /\ (g.ok /\ g.refund > 0) =>
               /\ atRefund.domainInfo = g.st.domainInfo
               /\ atRefund.ownerDomains = g.st.ownerDomains
               /\ atRefund.treasuryBalances = g.st.treasuryBalances
          /\ (w.ok /\ w.refund > 0) =>
               /\ atRefund.domainInfo = w.st.domainInfo
               /\ atRefund.treasuryBalances = w.st.treasuryBalances
  /\ \A sender \in Users, domain \in Keys, amount \in WithdrawInputs :
       LET r == withdrawExcess(S, sender, domain, amount, "accepts")
       IN r.ok => withdrawExcessDebit(S, domain, amount).treasuryBalances = r.st.treasuryBalances

\* The functions that register
RegisterOps == {"registerDomain", "registerDomainWithUSDC", "batchRegisterDomains"}

\* A record whose expiration has passed is unexpired after the step only if
\* the step is a registration.
RevivedOnlyByRegister ==
  \A k \in Keys :
    (/\ domainInfo[k].owner # ZERO
     /\ domainInfo[k].expirationTimestamp <= now
     /\ domainInfo'[k].expirationTimestamp > now')
    => last'.op \in RegisterOps

\* C35: a domain whose expiration is <= now becomes unexpired again only
\* through registerDomain, registerDomainWithUSDC or batchRegisterDomains:
\* no step of renewDomain, batchRenewDomains, renewDomainFromTreasury or
\* autoRenewDomain extends the expiration of a lapsed domain beyond now.
C35_LapsedRevivedOnlyByRegister == [][RevivedOnlyByRegister]_vars

\* The items of a batch registered one after another by registerDomain,
\* each amply paid: whether every one succeeds.
RECURSIVE RegisteredInTurn(_, _, _, _)
RegisteredInTurn(s, sender, items, i) ==
  IF i > Len(items) THEN TRUE
  ELSE LET r == registerDomain(s, sender, items[i].domain, items[i].tld, items[i].numYears, 10100)
       IN r.ok /\ RegisteredInTurn(r.st, sender, items, i + 1)

\* C36: batchRegisterDomains, amply paid, accepts a batch exactly when
\* registerDomain would succeed for its items one after another; a batch that
\* names one normalized full domain twice is rejected, the later item being
\* no longer available, and no caller pays twice for one domain.
C36_BatchAsRegistersInTurn ==
  \A sender \in Users, items \in BatchInputs :
    LET r == batchRegisterDomains(S, sender, items, 10100)
    IN /\ r.ok <=> RegisteredInTurn(S, sender, items, 1)
       /\ (Len(items) = 2 /\ FullOf(items[1]) = FullOf(items[2])) => ~r.ok

\* The sum of the balances bal records for the domains of K.
RECURSIVE BalancesTotal(_, _)
BalancesTotal(bal, K) ==
  IF K = {} THEN 0
  ELSE LET k == CHOOSE x \in K : TRUE
       IN bal[k] + BalancesTotal(bal, K \ {k})

\* The treasury contract holds at least what it records for the domains.
Covered(s) == BalancesTotal(s.treasuryBalances, Keys) <= s.eth[TREASURY]

\* C38: the per-domain treasury balances add up to no more than the ether the
\* treasury contract holds, in every reachable state and after every
\* successful register, USDC register, renew, deposit, auto-renew and
\* withdrawal made from it.
C38_BalancesCoveredByFunds ==
  /\ Covered(S)
  /\ \A sender \in Users, n \in NameInputs, t \in TldInputs, y \in YearInputs, v \in PaymentInputs :
       /\ Covered(registerDomain(S, sender, n, t, y, v).st)
       /\ Covered(renewDomain(S, sender, n, t, y, v).st)
       /\ Covered(autoRenewDomain(S, sender, n, t, y).st)
       /\ Covered(batchRenewDomains(S, sender, <<[domain |-> n, tld |-> t, numYears |-> y]>>, v).st)
  /\ \A sender \in Users, n \in NameInputs, t \in TldInputs, y \in YearInputs,
        u \in UsdcAmounts, feed \in FeedAnswers, pays \in BOOLEAN :
       Covered(registerDomainWithUSDC(S, sender, n, t, y, u, feed, pays).st)
  /\ \A sender \in Users \cup {REGISTRY}, domain \in Keys, v \in {0, 1, 2} :
       Covered(depositFee(S, Pay(S, sender, TREASURY, v), sender, domain, v).st)
  /\ \A sender \in Users, domain \in Keys, amount \in WithdrawInputs, receiver \in ReceiverKinds :
       Covered(withdrawExcess(S, sender, domain, amount, receiver).st)

\* ALICE has withdrawn 1 of the fees of a.c; the treasury still records, and
\* holds, fees paid for it, the whole of the ether it has.
C38_Witness ==
  /\ last.op = "withdrawExcess"
  /\ last.domain = <<97, 46, 99>>
  /\ treasuryBalances[<<97, 46, 99>>] >= 1
  /\ BalancesTotal(treasuryBalances, Keys) = eth[TREASURY]
  /\ eth[TREASURY] >= 1

\* No domain expires earlier in s than it does now.
NotShortened(s) ==
  \A k \in Keys : s.domainInfo[k].expirationTimestamp >= domainInfo[k].expirationTimestamp

\* Batches of one or two items over the spellings of one name, for 1 or 2
\* years each: the same domain may come twice with different years.
LifetimeBatches ==
  LET X == {[domain |-> n, tld |-> <<99>>, numYears |-> y] : n \in {<<97>>, <<65>>}, y \in {1, 2}}
  IN {<<x>> : x \in X} \cup {<<x, y>> : x, y \in X}

\* Whatever call is made next, no expiration comes out lower than it is.
NoCallShortens ==
  /\ \A sender \in Users, n \in NameInputs, t \in TldInputs, y \in YearInputs, v \in PaymentInputs :
       /\ NotShortened(registerDomain(S, sender, n, t, y, v).st)
       /\ NotShortened(renewDomain(S, sender, n, t, y, v).st)
  /\ \A sender \in Users, n \in NameInputs, t \in TldInputs, y \in YearInputs,
        u \in UsdcAmounts, feed \in FeedAnswers, pays \in BOOLEAN :
       /\ NotShortened(registerDomainWithUSDC(S, sender, n, t, y, u, feed, pays).st)
       /\ NotShortened(renewDomainWithUSDC(S, sender, n, t, y, u, feed, pays).st)
  /\ \A sender \in Users, items \in LifetimeBatches, v \in {220, 10100} :
       /\ NotShortened(batchRegisterDomains(S, sender, items, v).st)
       /\ NotShortened(batchRenewDomains(S, sender, items, v).st)
  /\ \A sender \in EOAs, n \in NameInputs, t \in TldInputs, y \in YearInputs :
       NotShortened(renewDomainFromTreasury(S, sender, n, t, y, 0).st)
  /\ \A sender \in Users, domain \in FullInputs, newOwner \in Users :
       /\ NotShortened(transferDomain(S, sender, domain, newOwner).st)
       /\ NotShortened(transferDomainOwnership(S, sender, domain, newOwner).st)

\* A step leaves every expiration where it was or moves it later.
ExpirationKept ==
  \A k \in Keys : domainInfo'[k].expirationTimestamp >= domainInfo[k].expirationTimestamp

\* C39: the expiration timestamp of a domain never decreases: not in any
\* step taken, nor by any register, USDC register, batch, renew, renewal from
\* the treasury or transfer that could be made from a reachable state, a
\* registration over a lapsed one included.
C39_ExpirationNeverDecreases == []NoCallShortens /\ [][ExpirationKept]_vars

\* a.c has lapsed in ALICE's hands, to whom the fractionalization address
\* has just transferred it: the expiration is the one her registration set,
\* and BOB's registration over it moves the expiration a year past now.
C39_Witness ==
  /\ last.op = "transferDomainOwnership"
  /\ last.domain = <<97, 46, 99>>
  /\ domainInfo[<<97, 46, 99>>].owner = ALICE
  /\ domainInfo[<<97, 46, 99>>].expirationTimestamp = YearLen
  /\ now >= YearLen
  /\ LET r == registerDomain(S, BOB, <<97>>, <<99>>, 1, 220)
     IN /\ r.ok
        /\ r.st.domainInfo[<<97, 46, 99>>].owner = BOB
        /\ r.st.domainInfo[<<97, 46, 99>>].expirationTimestamp = now + YearLen

====
